---- MODULE Spec2Model ----
(***************************************************************************)
(* Verification model of the PostgreSQL query runner (PostgresQueryRunner) *)
(* and of the schema-change operations it offers: connection handling,     *)
(* nested transactions, and the up/down statement lists of the DDL         *)
(* operations together with the cached Table they maintain.                *)
(***************************************************************************)
EXTENDS Integers, Sequences, FiniteSets, TLC

VARIABLES
    \* ---- transaction state of the runner (BaseQueryRunner fields)
    isTransactionActive,   \* this.isTransactionActive
    transactionDepth,      \* this.transactionDepth
    calls,                 \* history: one record per finished transaction call
    \* ---- connection state of the runner
    databaseConnection,    \* this.databaseConnection (0 = undefined, else connection id)
    databaseConnectionPromise, \* 0 = undefined, k = the promise of the k-th obtain call
    releaseCallback,       \* 0 = undefined, c = closure over the release fn of connection c
    isReleased,            \* this.isReleased
    connectedQueryRunners, \* how many times the runner is in driver.connectedQueryRunners
    listenerAttached,      \* connections that carry the runner's "error" listener
    obtainCalls,           \* sequence of "master"/"slave": pool obtain calls made
    poolReleases,          \* sequence of the err arguments given to the pool's release fn
    received,              \* what each connect() caller got
    promises,              \* state of the promise of each pool obtain call
    releaseCalls,          \* number of releasePostgresConnection invocations so far
    mode,                  \* replication mode fixed at construction
    isReplicated,          \* driver.isReplicated
    \* ---- query() calls
    queryCalls,            \* one record per query() call, in call order
    \* ---- bulk helpers
    bulk,                  \* the create...s / drop...s call under way
    \* ---- driver
    diff,                  \* the columns handed to findChangedColumns and its results
    \* ---- loading
    load,                  \* the database the catalog shows, and the load calls made
    \* ---- databases and schemas
    ddl,                   \* one record per create / drop call of a database or schema
    \* ---- clearDatabase
    clear,                 \* one record per clearDatabase() call
    \* ---- loadTables, from catalog rows to tables
    catalog,               \* the catalog objects of a batch and the tables built from them
    \* ---- SqlServerDriver.parametrizeMap
    parametrize,           \* the inputs of a parametrizeMap call and what it gave
    \* ---- schema state
    cache,                 \* the Table held in loadedTables (NoTable if none)
    db,                    \* the schema the database holds
    lastOp                 \* the schema operation called, its lists and outcome

txVars == <<isTransactionActive, transactionDepth, calls>>
connVars == <<databaseConnection, databaseConnectionPromise, releaseCallback,
              isReleased, connectedQueryRunners, listenerAttached, obtainCalls,
              poolReleases, received, promises, releaseCalls, mode, isReplicated>>
schemaVars == <<cache, db, lastOp>>
queryVars == <<queryCalls>>
bulkVars == <<bulk>>
\* The variables only the operations of the later sections touch.
driverVars == <<diff>>

loadVars == <<load>>

ddlVars == <<ddl>>

clearVars == <<clear>>

catalogVars == <<catalog>>

parametrizeVars == <<parametrize>>

laterVars == <<clearVars, catalogVars, parametrizeVars>>

moreVars == <<bulkVars, driverVars, loadVars, ddlVars, laterVars>>
vars == <<txVars, connVars, schemaVars, queryVars, moreVars>>

\* ------------------------------------------------------------------------
\* Bounds of the model
\* ------------------------------------------------------------------------
MaxCalls == 6        \* transaction calls per behaviour
MaxFailures == 1     \* failing broadcasts / statements per behaviour
MaxConnects == 3     \* connect() calls per behaviour
MaxReleases == 3     \* release() calls and error events per behaviour
MaxFeatures == 2     \* features a loaded table has beyond the base table
MaxEdits == 2        \* fields changeColumn's new column differs in
MaxQueries == 2      \* query() calls per behaviour
MaxBulk == 3         \* constraints handed to one bulk helper
MaxDeclarations == 2 \* options a declared column is given
MaxRuns == 2         \* runs of the diff over the same columns
MaxTables == 2       \* tables in the database a load works on
MaxLoads == 2        \* loadTables / loadViews calls per behaviour
MaxDdl == 1          \* create / drop calls of a database or schema per behaviour
MaxClears == 1       \* clearDatabase() calls per behaviour
MaxCatalogObjects == 3  \* constraints and indices in the catalog of a batch
MaxKeys == 3         \* properties of the map given to parametrizeMap

\* ------------------------------------------------------------------------
\* Transactions
\* ------------------------------------------------------------------------
IsolationLevels == {"", "SERIALIZABLE"}

\* `SAVEPOINT typeorm_${this.transactionDepth}`
SavepointName(depth) == "typeorm_" \o ToString(depth)

StartSql == "START TRANSACTION"
IsolationSql(level) == "SET TRANSACTION ISOLATION LEVEL " \o level
SavepointSql(depth) == "SAVEPOINT " \o SavepointName(depth)
\* (variant: the savepoint is named after the current depth)
ReleaseSqlCurrentDepth(depth) == "RELEASE SAVEPOINT " \o SavepointName(depth)
ReleaseSql(depth) == "RELEASE SAVEPOINT " \o SavepointName(depth - 1)
\* (variant: the savepoint is named after the current depth)
RollbackToSqlCurrentDepth(depth) == "ROLLBACK TO SAVEPOINT " \o SavepointName(depth)
RollbackToSql(depth) == "ROLLBACK TO SAVEPOINT " \o SavepointName(depth - 1)

Failures == Cardinality({i \in 1..Len(calls) : calls[i].outcome # "ok"})

CanFail == Failures < MaxFailures

CallRecord(op, level, outcome, stmts) ==
    [op |-> op, iso |-> level, depthBefore |-> transactionDepth,
     activeBefore |-> isTransactionActive, outcome |-> outcome, stmts |-> stmts]

\* The statements startTransaction sends when nothing fails.
StartStatements(depth, level) ==
    IF depth = 0
    THEN IF level # "" THEN <<StartSql, IsolationSql(level)>> ELSE <<StartSql>>
    ELSE <<SavepointSql(depth)>>

\* startTransaction(isolationLevel); fail names the step that throws.
StartTransaction ==
    /\ Len(calls) < MaxCalls
    /\ \E level \in IsolationLevels :
       \E fail \in {"none", "before", "query", "isoQuery", "after"} :
          /\ fail # "none" => CanFail
          /\ fail = "isoQuery" => (transactionDepth = 0 /\ level # "")
          /\ LET all == StartStatements(transactionDepth, level) IN
             CASE fail = "before" ->
                    /\ isTransactionActive' = FALSE
                    /\ transactionDepth' = transactionDepth
                    /\ calls' = Append(calls,
                          CallRecord("start", level, "BroadcastError", <<>>))
               [] fail = "query" ->
                    /\ isTransactionActive' = TRUE
                    /\ transactionDepth' = transactionDepth
                    /\ calls' = Append(calls,
                          CallRecord("start", level, "QueryFailedError",
                                     SubSeq(all, 1, 1)))
               [] fail = "isoQuery" ->
                    /\ isTransactionActive' = TRUE
                    /\ transactionDepth' = transactionDepth
                    /\ calls' = Append(calls,
                          CallRecord("start", level, "QueryFailedError", all))
               [] OTHER ->
                    /\ isTransactionActive' = TRUE
                    /\ transactionDepth' = transactionDepth + 1
                    /\ calls' = Append(calls,
                          CallRecord("start", level,
                                     IF fail = "after" THEN "BroadcastError" ELSE "ok",
                                     all))
    /\ UNCHANGED <<connVars, schemaVars, queryVars, moreVars>>

\* Shared body of commitTransaction / rollbackTransaction.
EndTransaction(op, nestedSql, topSql) ==
    /\ Len(calls) < MaxCalls
    /\ IF ~isTransactionActive
       THEN /\ calls' = Append(calls,
                  CallRecord(op, "", "TransactionNotStartedError", <<>>))
            /\ UNCHANGED <<isTransactionActive, transactionDepth>>
       ELSE \E fail \in {"none", "before", "query", "after"} :
            /\ fail # "none" => CanFail
            /\ LET stmt == IF transactionDepth > 1 THEN nestedSql ELSE topSql IN
               CASE fail = "before" ->
                      /\ calls' = Append(calls,
                            CallRecord(op, "", "BroadcastError", <<>>))
                      /\ UNCHANGED <<isTransactionActive, transactionDepth>>
                 [] fail = "query" ->
                      /\ calls' = Append(calls,
                            CallRecord(op, "", "QueryFailedError", <<stmt>>))
                      /\ UNCHANGED <<isTransactionActive, transactionDepth>>
                 [] OTHER ->
                      /\ isTransactionActive' =
                            IF transactionDepth > 1 THEN isTransactionActive ELSE FALSE
                      /\ transactionDepth' = transactionDepth - 1
                      /\ calls' = Append(calls,
                            CallRecord(op, "",
                                       IF fail = "after" THEN "BroadcastError" ELSE "ok",
                                       <<stmt>>))
    /\ UNCHANGED <<connVars, schemaVars, queryVars, moreVars>>

CommitTransaction ==
    EndTransaction("commit", ReleaseSql(transactionDepth), "COMMIT")

RollbackTransaction ==
    EndTransaction("rollback", RollbackToSql(transactionDepth), "ROLLBACK")

\* ------------------------------------------------------------------------
\* Connection handling
\* ------------------------------------------------------------------------
Errors == {"ECONNRESET"}

\* (variant: connect() without the memoised promise)
connectNoMemo ==
    /\ IF databaseConnection # 0
       THEN /\ received' = Append(received,
                   [kind |-> "value", conn |-> databaseConnection])
            /\ UNCHANGED <<obtainCalls, promises, databaseConnectionPromise>>
       ELSE /\ obtainCalls' = Append(obtainCalls,
                   IF mode = "slave" /\ isReplicated THEN "slave" ELSE "master")
            /\ promises' = Append(promises, "pending")
            /\ databaseConnectionPromise' = Len(obtainCalls) + 1
            /\ received' = Append(received,
                   [kind |-> "promise", conn |-> Len(obtainCalls) + 1])
    /\ UNCHANGED <<databaseConnection, releaseCallback, isReleased,
                   connectedQueryRunners, listenerAttached, poolReleases,
                   releaseCalls, mode, isReplicated>>

\* connect(): the memoised connection, else the in-flight promise, else a
\* new obtain call on the master or slave pool.
connect ==
    /\ IF databaseConnection # 0
       THEN /\ received' = Append(received,
                   [kind |-> "value", conn |-> databaseConnection])
            /\ UNCHANGED <<obtainCalls, promises, databaseConnectionPromise>>
       ELSE IF databaseConnectionPromise # 0
       THEN /\ received' = Append(received,
                   [kind |-> "promise", conn |-> databaseConnectionPromise])
            /\ UNCHANGED <<obtainCalls, promises, databaseConnectionPromise>>
       ELSE /\ obtainCalls' = Append(obtainCalls,
                   IF mode = "slave" /\ isReplicated THEN "slave" ELSE "master")
            /\ promises' = Append(promises, "pending")
            /\ databaseConnectionPromise' = Len(obtainCalls) + 1
            /\ received' = Append(received,
                   [kind |-> "promise", conn |-> Len(obtainCalls) + 1])
    /\ UNCHANGED <<databaseConnection, releaseCallback, isReleased,
                   connectedQueryRunners, listenerAttached, poolReleases,
                   releaseCalls, mode, isReplicated>>

\* A call of connect() from outside the runner.
Connect ==
    /\ Len(received) < MaxConnects
    /\ connect
    /\ UNCHANGED <<txVars, schemaVars, queryVars, moreVars>>

\* The .then() handler of the obtain promise: the pool hands over
\* connection c (the c-th obtained) together with its release function.
ObtainResolve ==
    /\ \E c \in 1..Len(promises) :
          /\ promises[c] = "pending"
          /\ promises' = [promises EXCEPT ![c] = "resolved"]
          /\ connectedQueryRunners' = connectedQueryRunners + 1
          /\ databaseConnection' = c
          /\ releaseCallback' = c
          /\ listenerAttached' = listenerAttached \cup {c}
    /\ UNCHANGED <<databaseConnectionPromise, isReleased, obtainCalls,
                   poolReleases, received, releaseCalls, mode, isReplicated>>
    /\ UNCHANGED <<txVars, schemaVars, queryVars, moreVars>>

\* The pool fails to hand out a connection: the memoised promise rejects.
ObtainReject ==
    /\ \E c \in 1..Len(promises) :
          /\ promises[c] = "pending"
          /\ promises' = [promises EXCEPT ![c] = "rejected"]
    /\ UNCHANGED <<databaseConnection, databaseConnectionPromise, releaseCallback,
                   isReleased, connectedQueryRunners, listenerAttached,
                   obtainCalls, poolReleases, received, releaseCalls, mode,
                   isReplicated>>
    /\ UNCHANGED <<txVars, schemaVars, queryVars, moreVars>>

\* releasePostgresConnection(err) without its isReleased guard.
ReleaseNoGuard(err) ==
    /\ isReleased' = TRUE
    /\ IF releaseCallback # 0
       THEN /\ listenerAttached' = listenerAttached \ {databaseConnection}
            /\ poolReleases' = Append(poolReleases,
                   [conn |-> releaseCallback, err |-> err])
            /\ releaseCallback' = 0
       ELSE UNCHANGED <<listenerAttached, poolReleases, releaseCallback>>
    /\ connectedQueryRunners' =
          IF connectedQueryRunners > 0 THEN connectedQueryRunners - 1 ELSE 0

\* (variant: the release callback is called without the error)
ReleaseWithoutError(err) ==
    IF isReleased
    THEN UNCHANGED <<isReleased, listenerAttached, poolReleases,
                     releaseCallback, connectedQueryRunners>>
    ELSE /\ isReleased' = TRUE
         /\ IF releaseCallback # 0
            THEN /\ listenerAttached' = listenerAttached \ {databaseConnection}
                 /\ poolReleases' = Append(poolReleases,
                        [conn |-> releaseCallback, err |-> ""])
                 /\ releaseCallback' = 0
            ELSE UNCHANGED <<listenerAttached, poolReleases, releaseCallback>>
         /\ connectedQueryRunners' =
               IF connectedQueryRunners > 0 THEN connectedQueryRunners - 1 ELSE 0

\* releasePostgresConnection(err)
ReleasePostgresConnection(err) ==
    IF isReleased
    THEN UNCHANGED <<isReleased, listenerAttached, poolReleases,
                     releaseCallback, connectedQueryRunners>>
    ELSE /\ isReleased' = TRUE
         /\ IF releaseCallback # 0
            THEN /\ listenerAttached' = listenerAttached \ {databaseConnection}
                 /\ poolReleases' = Append(poolReleases,
                        [conn |-> releaseCallback, err |-> err])
                 /\ releaseCallback' = 0
            ELSE UNCHANGED <<listenerAttached, poolReleases, releaseCallback>>
         /\ connectedQueryRunners' =
               IF connectedQueryRunners > 0 THEN connectedQueryRunners - 1 ELSE 0

\* release()
Release ==
    /\ releaseCalls < MaxReleases
    /\ releaseCalls' = releaseCalls + 1
    /\ ReleasePostgresConnection("")
    /\ UNCHANGED <<databaseConnection, databaseConnectionPromise, obtainCalls,
                   received, promises, mode, isReplicated>>
    /\ UNCHANGED <<txVars, schemaVars, queryVars, moreVars>>

\* The connection emits "error": every attached listener runs onErrorCallback.
ConnectionError ==
    /\ releaseCalls < MaxReleases
    /\ \E c \in listenerAttached : \E err \in Errors :
          ReleasePostgresConnection(err)
    /\ releaseCalls' = releaseCalls + 1
    /\ UNCHANGED <<databaseConnection, databaseConnectionPromise, obtainCalls,
                   received, promises, mode, isReplicated>>
    /\ UNCHANGED <<txVars, schemaVars, queryVars, moreVars>>

\* ------------------------------------------------------------------------
\* query(query, parameters)
\* ------------------------------------------------------------------------
\* The statements and parameter lists query() is called with.
Statements == {"SELECT 1", "SELECT $1"}
ParameterLists == {<<>>, <<"7">>}

NoReceived == [kind |-> "none", conn |-> 0]
NoQueryError == [query |-> "", parameters |-> <<>>, driverError |-> ""]

\* The record of one query() call.  state is "awaiting" while the call
\* waits for connect(), "done" once it has returned or thrown; sent lists
\* the databaseConnection.query() calls made, events the query events
\* broadcast, error what the thrown QueryFailedError carries.
QueryCall(query, parameters, state, awaits, outcome) ==
    [query |-> query, parameters |-> parameters, state |-> state,
     awaits |-> awaits, outcome |-> outcome, sent |-> <<>>, events |-> <<>>,
     error |-> NoQueryError, releasedAtCall |-> isReleased,
     obtainCallsAtCall |-> Len(obtainCalls)]

\* (variant: query() without its isReleased test)
QueryStartNoGuard(query, parameters) ==
    /\ connect
    /\ queryCalls' = Append(queryCalls,
          QueryCall(query, parameters, "awaiting", received'[Len(received')], ""))

\* query() up to `await this.connect()`
QueryStart(query, parameters) ==
    IF isReleased
    THEN /\ queryCalls' = Append(queryCalls,
               QueryCall(query, parameters, "done", NoReceived,
                         "QueryRunnerAlreadyReleasedError"))
         /\ UNCHANGED connVars
    ELSE /\ connect
         /\ queryCalls' = Append(queryCalls,
               QueryCall(query, parameters, "awaiting", received'[Len(received')],
                         ""))

\* A call of query().
Query ==
    /\ Len(queryCalls) < MaxQueries
    /\ \E query \in Statements, parameters \in ParameterLists :
          QueryStart(query, parameters)
    /\ UNCHANGED <<txVars, schemaVars, moreVars>>

\* What `await this.connect()` has to give: whether the awaited value or
\* promise has settled, and the connection it resolves to.
Awaited(awaits) ==
    [settled |-> IF awaits.kind = "value" THEN "resolved"
                 ELSE promises[awaits.conn],
     conn |-> awaits.conn]

DriverErrors == {"syntax error"}

\* (variant: the QueryFailedError is built without the parameters)
QueryFailedErrorNoParameters(query, parameters, err) ==
    [query |-> query, parameters |-> <<>>, driverError |-> err]

\* new QueryFailedError(query, parameters, err)
QueryFailedError(query, parameters, err) ==
    [query |-> query, parameters |-> parameters, driverError |-> err]

QueryEvent(name, call, success) ==
    [name |-> name, query |-> call.query, parameters |-> call.parameters,
     success |-> success]

\* query() from the point where connect() has settled: BeforeQuery, one
\* databaseConnection.query() call, AfterQuery, and the result or the
\* QueryFailedError.  fail names the step that throws.
QueryResume ==
    /\ \E i \in 1..Len(queryCalls) :
          /\ queryCalls[i].state = "awaiting"
          /\ \E connection \in {Awaited(queryCalls[i].awaits)} :
             /\ connection.settled # "pending"
             /\ \E fail \in {"none", "before", "query"}, err \in DriverErrors :
                \E call \in {queryCalls[i]} :
                \E sent \in {<<[conn |-> connection.conn, query |-> call.query,
                                parameters |-> call.parameters]>>} :
                  queryCalls' = [queryCalls EXCEPT ![i] =
                    IF connection.settled = "rejected"
                    THEN [call EXCEPT !.state = "done", !.outcome = "ObtainError"]
                    ELSE IF fail = "before"
                    THEN [call EXCEPT !.state = "done", !.outcome = "BroadcastError"]
                    ELSE IF fail = "query"
                    THEN [call EXCEPT
                            !.state = "done", !.outcome = "QueryFailedError",
                            !.sent = sent,
                            !.events = <<QueryEvent("BeforeQuery", call, TRUE),
                                         QueryEvent("AfterQuery", call, FALSE)>>,
                            !.error = QueryFailedError(call.query, call.parameters,
                                                       err)]
                    ELSE [call EXCEPT
                            !.state = "done", !.outcome = "ok", !.sent = sent,
                            !.events = <<QueryEvent("BeforeQuery", call, TRUE),
                                         QueryEvent("AfterQuery", call, TRUE)>>]]
    /\ UNCHANGED <<txVars, connVars, schemaVars, moreVars>>

\* ------------------------------------------------------------------------
\* Schema model: TableColumn, Table and its constraints
\* ------------------------------------------------------------------------
\* Names are strings; "" stands for undefined, <<>> for an absent list.
\* All tables live in the driver's search schema, so escapePath renders the
\* bare table name and database objects are identified by their bare name.
NameOrder == <<"a", "b", "c", "d", "e">>

\* [...columnNames].sort()
SortNames(names) ==
    SelectSeq(NameOrder, LAMBDA n : \E i \in 1..Len(names) : names[i] = n)

RECURSIVE JoinNames(_)
JoinNames(names) ==
    IF names = <<>> THEN ""
    ELSE IF Len(names) = 1 THEN names[1]
    ELSE names[1] \o "_" \o JoinNames(Tail(names))

Range(s) == {s[i] : i \in 1..Len(s)}

\* DefaultNamingStrategy: a prefix and a key over the table name and the
\* sorted column names (the hash of the key is modelled by the key itself).
primaryKeyName(tableName, columnNames) ==
    "PK_" \o tableName \o "_" \o JoinNames(SortNames(columnNames))

uniqueConstraintName(tableName, columnNames) ==
    "UQ_" \o tableName \o "_" \o JoinNames(SortNames(columnNames))

foreignKeyName(tableName, columnNames) ==
    "FK_" \o tableName \o "_" \o JoinNames(SortNames(columnNames))

indexName(tableName, columnNames, where) ==
    "IDX_" \o tableName \o "_" \o JoinNames(SortNames(columnNames))
        \o (IF where # "" THEN "_" \o where ELSE "")

checkConstraintName(tableName, expression) ==
    "CHK_" \o tableName \o "_" \o expression

exclusionConstraintName(tableName, expression) ==
    "XCL_" \o tableName \o "_" \o expression

\* new TableColumn({name, type}) with every option at its default.
TableColumn(name, type) ==
    [name |-> name, type |-> type, isPrimary |-> FALSE,
     primaryKeyConstraintName |-> "", isUnique |-> FALSE, isNullable |-> FALSE,
     default |-> "", enum |-> <<>>, enumName |-> "", isGenerated |-> FALSE,
     generationStrategy |-> "", generatedType |-> "", asExpression |-> "",
     comment |-> "", length |-> "", precision |-> "", scale |-> "",
     isArray |-> FALSE, collation |-> "", srid |-> "",
     spatialFeatureType |-> ""]

TableUnique(name, columnNames) == [name |-> name, columnNames |-> columnNames]

TableIndex(name, columnNames, isUnique, where) ==
    [name |-> name, columnNames |-> columnNames, isUnique |-> isUnique,
     where |-> where]

TableForeignKey(name, columnNames, referencedTableName, referencedColumnNames) ==
    [name |-> name, columnNames |-> columnNames,
     referencedTableName |-> referencedTableName,
     referencedColumnNames |-> referencedColumnNames]

TableCheck(name, expression, columnNames) ==
    [name |-> name, expression |-> expression, columnNames |-> columnNames]

TableExclusion(name, expression) == [name |-> name, expression |-> expression]

Table(name, columns) ==
    [name |-> name, columns |-> columns, uniques |-> <<>>, indices |-> <<>>,
     foreignKeys |-> <<>>, checks |-> <<>>, exclusions |-> <<>>,
     comment |-> ""]

\* The value of the cache when no table is loaded, and of a lookup that
\* finds nothing.
NoTable == Table("", <<>>)

\* table.primaryColumns
primaryColumns(table) == SelectSeq(table.columns, LAMBDA c : c.isPrimary)

columnNamesOf(columns) == [i \in 1..Len(columns) |-> columns[i].name]

\* table.findColumnByName(name): its position in table.columns, 0 if absent
findColumnByName(table, name) ==
    IF \E i \in 1..Len(table.columns) : table.columns[i].name = name
    THEN CHOOSE i \in 1..Len(table.columns) :
            /\ table.columns[i].name = name
            /\ \A j \in 1..(i - 1) : table.columns[j].name # name
    ELSE 0

Includes(names, name) == \E i \in 1..Len(names) : names[i] = name

\* table.findColumnUniques / findColumnIndices / findColumnForeignKeys /
\* findColumnChecks: the members whose column names include the column
findColumnUniques(table, column) ==
    SelectSeq(table.uniques, LAMBDA u : Includes(u.columnNames, column.name))

findColumnIndices(table, column) ==
    SelectSeq(table.indices, LAMBDA x : Includes(x.columnNames, column.name))

findColumnForeignKeys(table, column) ==
    SelectSeq(table.foreignKeys, LAMBDA k : Includes(k.columnNames, column.name))

Replace(names, old, new) ==
    [i \in 1..Len(names) |-> IF names[i] = old THEN new ELSE names[i]]

Remove(s, i) == SubSeq(s, 1, i - 1) \o SubSeq(s, i + 1, Len(s))

\* ------------------------------------------------------------------------
\* Statement builders.  A Query is a record naming the statement and its
\* operands; one record per distinct SQL text.
\* ------------------------------------------------------------------------
\* driver.createFullType(column)
createFullType(column) ==
    column.type
    \o (IF column.length # "" THEN "(" \o column.length \o ")"
        ELSE IF column.precision # "" /\ column.scale # ""
        THEN "(" \o column.precision \o "," \o column.scale \o ")"
        ELSE IF column.precision # "" THEN "(" \o column.precision \o ")"
        ELSE "")
    \o (IF column.isArray THEN " array" ELSE "")

IsEnum(column) == column.type = "enum" \/ column.type = "simple-enum"

\* buildSequenceName(table, columnOrName); every name of the model is
\* shorter than maxAliasLength, so the truncating branch is not taken.
buildSequenceName(tableName, columnName) ==
    tableName \o "_" \o columnName \o "_seq"

\* buildEnumName(table, column, withSchema, disableEscape, toOld)
buildEnumName(tableName, column, toOld) ==
    (IF column.enumName # "" THEN column.enumName
     ELSE tableName \o "_" \o column.name \o "_enum")
    \o (IF toOld THEN "_old" ELSE "")

\* buildCreateColumnSql(table, column): the column definition text, one
\* field per clause.
buildCreateColumnSql(table, column) ==
    [name |-> column.name,
     serial |->
        IF column.isGenerated /\ column.generationStrategy # "uuid"
        THEN IF column.generationStrategy = "identity" THEN "IDENTITY"
             ELSE IF column.type \in {"integer", "int", "int4"} THEN "SERIAL"
             ELSE IF column.type \in {"smallint", "int2"} THEN "SMALLSERIAL"
             ELSE IF column.type \in {"bigint", "int8"} THEN "BIGSERIAL"
             ELSE ""
        ELSE "",
     type |->
        IF column.isGenerated /\ column.generationStrategy = "identity"
        THEN column.type
        ELSE IF IsEnum(column)
        THEN buildEnumName(table.name, column, FALSE)
                \o (IF column.isArray THEN " array" ELSE "")
        ELSE IF ~column.isGenerated \/ column.type = "uuid"
        THEN createFullType(column)
        ELSE "",
     isEnum |-> IsEnum(column),
     generatedAs |->
        IF column.generatedType = "STORED" /\ column.asExpression # ""
        THEN column.asExpression ELSE "",
     collation |-> column.collation,
     notNull |-> ~column.isNullable,
     default |->
        IF column.default # "" THEN column.default
        ELSE IF column.isGenerated /\ column.generationStrategy = "uuid"
        THEN "uuid_generate_v4()"
        ELSE ""]

\* A variant of AddColumnSql that leaves out the NOT NULL clause.
AddColumnSqlNullable(table, column) ==
    [op |-> "ADD COLUMN", table |-> table.name,
     def |-> buildCreateColumnSql(table, [column EXCEPT !.isNullable = TRUE])]

\* `ALTER TABLE t ADD <column definition>`
AddColumnSql(table, column) ==
    [op |-> "ADD COLUMN", table |-> table.name,
     def |-> buildCreateColumnSql(table, column)]

\* `ALTER TABLE t DROP COLUMN "c"`
DropColumnSql(table, column) ==
    [op |-> "DROP COLUMN", table |-> table.name, name |-> column.name]

\* `ALTER TABLE t RENAME TO n`, `ALTER TABLE t RENAME COLUMN "a" TO "b"`,
\* `ALTER TABLE t RENAME CONSTRAINT "a" TO "b"`, `ALTER INDEX "a" RENAME TO
\* "b"`, `ALTER SEQUENCE a RENAME TO "b"`, `ALTER TYPE a RENAME TO b`
RenameSql(op, tableName, name, newName) ==
    [op |-> op, table |-> tableName, name |-> name, to |-> newName]

\* `ALTER TABLE t ALTER COLUMN "c" SET DEFAULT v | DROP DEFAULT | SET NOT
\* NULL | DROP NOT NULL`, `COMMENT ON COLUMN t."c" IS v`,
\* `UPDATE t SET "c" = "v"`
AlterColumnSql(op, tableName, columnName, value) ==
    [op |-> op, table |-> tableName, column |-> columnName, value |-> value]

\* createEnumTypeSql(table, column, enumName)
createEnumTypeSql(table, column, enumName) ==
    [op |-> "CREATE TYPE",
     name |-> IF enumName # "" THEN enumName
              ELSE buildEnumName(table.name, column, FALSE),
     values |-> column.enum]

\* dropEnumTypeSql(table, column, enumName)
dropEnumTypeSql(table, column, enumName) ==
    [op |-> "DROP TYPE",
     name |-> IF enumName # "" THEN enumName
              ELSE buildEnumName(table.name, column, FALSE)]

createIndexSql(table, index) ==
    [op |-> "CREATE INDEX", table |-> table.name, name |-> index.name,
     columnNames |-> index.columnNames, isUnique |-> index.isUnique,
     where |-> index.where]

dropIndexSql(table, index) == [op |-> "DROP INDEX", name |-> index.name]

createPrimaryKeySql(table, columnNames, constraintName) ==
    [op |-> "ADD PRIMARY KEY", table |-> table.name,
     name |-> IF constraintName # "" THEN constraintName
              ELSE primaryKeyName(table.name, columnNames),
     columnNames |-> columnNames]

\* dropPrimaryKeySql(table); the caller checks that the table has primary
\* columns (the builder throws otherwise).
dropPrimaryKeySql(table) ==
    LET pk == primaryColumns(table)
        constraintName == pk[1].primaryKeyConstraintName IN
    [op |-> "DROP CONSTRAINT", table |-> table.name,
     name |-> IF constraintName # "" THEN constraintName
              ELSE primaryKeyName(table.name, columnNamesOf(pk))]

createUniqueConstraintSql(table, unique) ==
    [op |-> "ADD UNIQUE", table |-> table.name, name |-> unique.name,
     columnNames |-> unique.columnNames]

dropUniqueConstraintSql(table, unique) ==
    [op |-> "DROP CONSTRAINT", table |-> table.name, name |-> unique.name]

createCheckConstraintSql(table, check) ==
    [op |-> "ADD CHECK", table |-> table.name, name |-> check.name,
     expression |-> check.expression]

dropCheckConstraintSql(table, check) ==
    [op |-> "DROP CONSTRAINT", table |-> table.name, name |-> check.name]

createExclusionConstraintSql(table, exclusion) ==
    [op |-> "ADD EXCLUDE", table |-> table.name, name |-> exclusion.name,
     expression |-> exclusion.expression]

dropExclusionConstraintSql(table, exclusion) ==
    [op |-> "DROP CONSTRAINT", table |-> table.name, name |-> exclusion.name]

createForeignKeySql(table, foreignKey) ==
    [op |-> "ADD FOREIGN KEY", table |-> table.name, name |-> foreignKey.name,
     columnNames |-> foreignKey.columnNames,
     referencedTableName |-> foreignKey.referencedTableName,
     referencedColumnNames |-> foreignKey.referencedColumnNames]

dropForeignKeySql(table, foreignKey) ==
    [op |-> "DROP CONSTRAINT", table |-> table.name, name |-> foreignKey.name]

AlterColumnTypeSql(tableName, columnName, type, isEnum) ==
    [op |-> "ALTER COLUMN TYPE", table |-> tableName, column |-> columnName,
     type |-> type, isEnum |-> isEnum]

CreateSequenceSql(name, tableName, columnName) ==
    [op |-> "CREATE SEQUENCE", name |-> name, table |-> tableName,
     column |-> columnName]

DropSequenceSql(name) == [op |-> "DROP SEQUENCE", name |-> name]

\* ------------------------------------------------------------------------
\* The database behind the connection: what PostgreSQL holds after the
\* statements handed to databaseConnection.query().  One table (plus the
\* tables foreign keys refer to, which always exist), its columns,
\* constraints and indices, the enum types, the sequences, and the rows of
\* typeorm_metadata.
\* ------------------------------------------------------------------------
EmptyDb ==
    [table |-> "", comment |-> "", columns |-> {}, constraints |-> {},
     indices |-> {}, types |-> {}, sequences |-> {}, metadata |-> {}]

DbColumn(name, type, isEnum, notNull, default, generatedAs, collation, identity) ==
    [name |-> name, type |-> type, isEnum |-> isEnum, notNull |-> notNull,
     default |-> default, comment |-> "", generatedAs |-> generatedAs,
     collation |-> collation, identity |-> identity]

DbConstraint(kind, name, columnNames, expression, refTable, refColumns) ==
    [kind |-> kind, name |-> name, columnNames |-> columnNames,
     expression |-> expression, referencedTableName |-> refTable,
     referencedColumnNames |-> refColumns]

DbIndex(name, columnNames, isUnique, where) ==
    [name |-> name, columnNames |-> columnNames, isUnique |-> isUnique,
     where |-> where]

NextVal(seq) == "nextval('" \o seq \o "')"

HasDbColumn(d, name) == \E c \in d.columns : c.name = name

ConstraintNames(d) == {c.name : c \in d.constraints}

\* Names in the namespace of relations: the table, indices (also those
\* backing primary-key, unique and exclusion constraints), sequences.
RelationNames(d) ==
    {d.table} \cup {x.name : x \in d.indices} \cup {s.name : s \in d.sequences}
    \cup {c.name : c \in {k \in d.constraints :
                             k.kind \in {"PRIMARY KEY", "UNIQUE", "EXCLUDE"}}}

TypeNames(d) == {t.name : t \in d.types}

MapColumns(d, f(_)) == [d EXCEPT !.columns = {f(c) : c \in d.columns}]

SetColumn(d, name, f(_)) ==
    MapColumns(d, LAMBDA c : IF c.name = name THEN f(c) ELSE c)

\* The columns a check or exclusion expression mentions.
ExpressionColumns(expression) ==
    CASE expression = "c <> ''" -> <<"c">>
      [] expression = "a < 100" -> <<"a">>
      [] expression = "USING gist (c WITH =)" -> <<"c">>
      [] OTHER -> <<>>

Done(d) == [ok |-> TRUE, db |-> d]
Rejected(d) == [ok |-> FALSE, db |-> d]

\* The column a column definition creates, and the sequence a serial
\* column brings with it.
ColumnOfDefinition(tableName, def) ==
    IF def.serial \in {"SERIAL", "SMALLSERIAL", "BIGSERIAL"}
    THEN DbColumn(def.name, def.serial, FALSE, TRUE,
                  NextVal(buildSequenceName(tableName, def.name)),
                  def.generatedAs, def.collation, FALSE)
    ELSE DbColumn(def.name, def.type, def.isEnum, def.notNull, def.default,
                  def.generatedAs, def.collation, def.serial = "IDENTITY")

SequencesOfDefinition(tableName, def) ==
    IF def.serial \in {"SERIAL", "SMALLSERIAL", "BIGSERIAL"}
    THEN {[name |-> buildSequenceName(tableName, def.name), column |-> def.name]}
    ELSE {}

DefinitionAccepted(d, tableName, def) ==
    /\ ~HasDbColumn(d, def.name)
    /\ def.serial # "" \/ def.type # ""
    /\ def.isEnum => def.type \in TypeNames(d)
    /\ \A s \in SequencesOfDefinition(tableName, def) :
          s.name \notin RelationNames(d)

ExecRename(d, q) ==
    CASE q.op = "RENAME TABLE" ->
           IF d.table = q.table /\ q.table # "" /\ q.to \notin RelationNames(d)
           THEN Done([d EXCEPT !.table = q.to])
           ELSE Rejected(d)
      [] q.op = "RENAME COLUMN" ->
           IF d.table = q.table /\ HasDbColumn(d, q.name) /\ ~HasDbColumn(d, q.to)
           THEN Done([SetColumn(d, q.name, LAMBDA c : [c EXCEPT !.name = q.to])
                      EXCEPT !.constraints =
                                {[c EXCEPT !.columnNames = Replace(@, q.name, q.to)]
                                    : c \in d.constraints},
                             !.indices =
                                {[x EXCEPT !.columnNames = Replace(@, q.name, q.to)]
                                    : x \in d.indices},
                             !.sequences =
                                {[s EXCEPT !.column =
                                      IF @ = q.name THEN q.to ELSE @]
                                    : s \in d.sequences}])
           ELSE Rejected(d)
      [] q.op = "RENAME CONSTRAINT" ->
           IF /\ d.table = q.table
              /\ q.name \in ConstraintNames(d)
              /\ q.to \notin ConstraintNames(d)
              /\ q.to \notin RelationNames(d)
           THEN Done([d EXCEPT !.constraints =
                        {IF c.name = q.name THEN [c EXCEPT !.name = q.to] ELSE c
                            : c \in d.constraints}])
           ELSE Rejected(d)
      [] q.op = "RENAME INDEX" ->
           IF /\ q.name \in {x.name : x \in d.indices}
              /\ q.to \notin RelationNames(d)
           THEN Done([d EXCEPT !.indices =
                        {IF x.name = q.name THEN [x EXCEPT !.name = q.to] ELSE x
                            : x \in d.indices}])
           ELSE Rejected(d)
      [] q.op = "RENAME SEQUENCE" ->
           IF /\ q.name \in {s.name : s \in d.sequences}
              /\ q.to \notin RelationNames(d)
           THEN Done([MapColumns(d, LAMBDA c :
                          IF c.default = NextVal(q.name)
                          THEN [c EXCEPT !.default = NextVal(q.to)] ELSE c)
                      EXCEPT !.sequences =
                        {IF s.name = q.name THEN [s EXCEPT !.name = q.to] ELSE s
                            : s \in d.sequences}])
           ELSE Rejected(d)
      [] OTHER -> \* RENAME TYPE
           IF q.name \in TypeNames(d) /\ q.to \notin TypeNames(d)
           THEN Done([MapColumns(d, LAMBDA c :
                          IF c.isEnum /\ c.type = q.name
                          THEN [c EXCEPT !.type = q.to] ELSE c)
                      EXCEPT !.types =
                        {IF t.name = q.name THEN [t EXCEPT !.name = q.to] ELSE t
                            : t \in d.types}])
           ELSE Rejected(d)

ExecConstraint(d, q) ==
    CASE q.op = "DROP CONSTRAINT" ->
           IF d.table = q.table /\ q.name \in ConstraintNames(d)
           THEN Done([d EXCEPT !.constraints = {c \in @ : c.name # q.name}])
           ELSE Rejected(d)
      [] q.op \in {"ADD PRIMARY KEY", "ADD UNIQUE", "ADD FOREIGN KEY"} ->
           IF /\ d.table = q.table
              /\ q.name # ""
              /\ q.name \notin ConstraintNames(d)
              /\ q.op # "ADD FOREIGN KEY" => q.name \notin RelationNames(d)
              /\ q.columnNames # <<>>
              /\ \A n \in Range(q.columnNames) : HasDbColumn(d, n)
              /\ q.op = "ADD PRIMARY KEY" =>
                    ~\E c \in d.constraints : c.kind = "PRIMARY KEY"
           THEN Done([d EXCEPT !.constraints = @ \cup
                   {CASE q.op = "ADD PRIMARY KEY" ->
                           DbConstraint("PRIMARY KEY", q.name, q.columnNames,
                                        "", "", <<>>)
                      [] q.op = "ADD UNIQUE" ->
                           DbConstraint("UNIQUE", q.name, q.columnNames,
                                        "", "", <<>>)
                      [] OTHER ->
                           DbConstraint("FOREIGN KEY", q.name, q.columnNames, "",
                                        q.referencedTableName,
                                        q.referencedColumnNames)}])
           ELSE Rejected(d)
      [] OTHER -> \* ADD CHECK, ADD EXCLUDE
           IF /\ d.table = q.table
              /\ q.name # ""
              /\ q.name \notin ConstraintNames(d)
              /\ q.op = "ADD EXCLUDE" => q.name \notin RelationNames(d)
           THEN Done([d EXCEPT !.constraints = @ \cup
                   {DbConstraint(IF q.op = "ADD CHECK" THEN "CHECK" ELSE "EXCLUDE",
                                 q.name, ExpressionColumns(q.expression),
                                 q.expression, "", <<>>)}])
           ELSE Rejected(d)

ExecColumn(d, q) ==
    CASE q.op = "ADD COLUMN" ->
           IF d.table = q.table /\ DefinitionAccepted(d, q.table, q.def)
           THEN Done([d EXCEPT
                   !.columns = @ \cup {ColumnOfDefinition(q.table, q.def)},
                   !.sequences = @ \cup SequencesOfDefinition(q.table, q.def)])
           ELSE Rejected(d)
      [] q.op = "DROP COLUMN" ->
           IF d.table = q.table /\ HasDbColumn(d, q.name)
           THEN Done([d EXCEPT
                   !.columns = {c \in @ : c.name # q.name},
                   !.constraints = {c \in @ : ~Includes(c.columnNames, q.name)},
                   !.indices = {x \in @ : ~Includes(x.columnNames, q.name)},
                   !.sequences = {s \in @ : s.column # q.name}])
           ELSE Rejected(d)
      [] q.op = "ALTER COLUMN TYPE" ->
           IF /\ d.table = q.table
              /\ HasDbColumn(d, q.column)
              /\ q.isEnum => /\ q.type \in TypeNames(d)
                             /\ \A c \in d.columns :
                                   c.name = q.column => c.default = ""
           THEN Done(SetColumn(d, q.column, LAMBDA c :
                        [c EXCEPT !.type = q.type, !.isEnum = q.isEnum]))
           ELSE Rejected(d)
      [] q.op = "SET DEFAULT" ->
           IF d.table = q.table /\ HasDbColumn(d, q.column)
           THEN Done(SetColumn(d, q.column, LAMBDA c :
                        [c EXCEPT !.default = q.value]))
           ELSE Rejected(d)
      [] q.op = "DROP DEFAULT" ->
           IF d.table = q.table /\ HasDbColumn(d, q.column)
           THEN Done(SetColumn(d, q.column, LAMBDA c : [c EXCEPT !.default = ""]))
           ELSE Rejected(d)
      [] q.op = "SET NOT NULL" ->
           IF d.table = q.table /\ HasDbColumn(d, q.column)
           THEN Done(SetColumn(d, q.column, LAMBDA c : [c EXCEPT !.notNull = TRUE]))
           ELSE Rejected(d)
      [] q.op = "DROP NOT NULL" ->
           IF d.table = q.table /\ HasDbColumn(d, q.column)
           THEN Done(SetColumn(d, q.column, LAMBDA c : [c EXCEPT !.notNull = FALSE]))
           ELSE Rejected(d)
      [] q.op = "ALTER COLUMN COLLATE" ->
           IF /\ d.table = q.table
              /\ HasDbColumn(d, q.column)
              /\ q.type \notin {"enum", "simple-enum"}
              /\ q.collation # "undefined"
           THEN Done(SetColumn(d, q.column, LAMBDA c :
                        [c EXCEPT !.type = q.type, !.isEnum = FALSE,
                                  !.collation = IF q.collation = "default"
                                                THEN "" ELSE q.collation]))
           ELSE Rejected(d)
      [] q.op = "UPDATE" ->
           IF d.table = q.table /\ HasDbColumn(d, q.column) /\ HasDbColumn(d, q.value)
           THEN Done(d) ELSE Rejected(d)
      [] OTHER -> \* COMMENT ON COLUMN
           IF d.table = q.table /\ HasDbColumn(d, q.column)
           THEN Done(SetColumn(d, q.column, LAMBDA c :
                        [c EXCEPT !.comment = q.value]))
           ELSE Rejected(d)

ExecObject(d, q) ==
    CASE q.op = "CREATE TYPE" ->
           IF q.name \notin TypeNames(d)
           THEN Done([d EXCEPT !.types = @ \cup
                        {[name |-> q.name, values |-> q.values]}])
           ELSE Rejected(d)
      [] q.op = "DROP TYPE" ->
           IF /\ q.name \in TypeNames(d)
              /\ ~\E c \in d.columns : c.isEnum /\ c.type = q.name
           THEN Done([d EXCEPT !.types = {t \in @ : t.name # q.name}])
           ELSE Rejected(d)
      [] q.op = "CREATE INDEX" ->
           IF /\ d.table = q.table
              /\ q.name # ""
              /\ q.name \notin RelationNames(d)
              /\ \A n \in Range(q.columnNames) : HasDbColumn(d, n)
           THEN Done([d EXCEPT !.indices = @ \cup
                        {DbIndex(q.name, q.columnNames, q.isUnique, q.where)}])
           ELSE Rejected(d)
      [] q.op = "DROP INDEX" ->
           IF q.name \in {x.name : x \in d.indices}
           THEN Done([d EXCEPT !.indices = {x \in @ : x.name # q.name}])
           ELSE Rejected(d)
      [] q.op = "CREATE SEQUENCE" -> \* IF NOT EXISTS ... OWNED BY
           IF d.table = q.table /\ HasDbColumn(d, q.column)
           THEN IF q.name \in RelationNames(d) THEN Done(d)
                ELSE Done([d EXCEPT !.sequences = @ \cup
                             {[name |-> q.name, column |-> q.column]}])
           ELSE Rejected(d)
      [] q.op = "DROP SEQUENCE" ->
           IF /\ q.name \in {s.name : s \in d.sequences}
              /\ ~\E c \in d.columns : c.default = NextVal(q.name)
           THEN Done([d EXCEPT !.sequences = {s \in @ : s.name # q.name}])
           ELSE Rejected(d)
      [] q.op = "INSERT METADATA" ->
           Done([d EXCEPT !.metadata = @ \cup
                   {[table |-> q.table, name |-> q.name, value |-> q.value]}])
      [] OTHER -> \* DELETE METADATA
           Done([d EXCEPT !.metadata =
                   {r \in @ : ~(r.table = q.table /\ r.name = q.name)}])

\* The clauses of CREATE TABLE one after the other; a rejected clause
\* rejects the statement.
RECURSIVE ExecClauses(_, _)
ExecClauses(d, clauses) ==
    IF clauses = <<>> THEN Done(d)
    ELSE LET q == Head(clauses)
             r == IF q.op \in {"ADD COLUMN", "COMMENT ON COLUMN"}
                  THEN ExecColumn(d, q) ELSE ExecConstraint(d, q) IN
         IF r.ok THEN ExecClauses(r.db, Tail(clauses)) ELSE r

ExecTable(d, q) ==
    CASE q.op = "CREATE TABLE" ->
           IF d.table = "" /\ q.table \notin RelationNames(d)
           THEN LET r == ExecClauses([d EXCEPT !.table = q.table], q.clauses) IN
                IF r.ok THEN r ELSE Rejected(d)
           ELSE Rejected(d)
      [] q.op = "DROP TABLE" ->
           IF d.table = q.table /\ q.table # ""
           THEN Done([d EXCEPT !.table = "", !.comment = "", !.columns = {},
                               !.constraints = {}, !.indices = {},
                               !.sequences = {}])
           ELSE Rejected(d)
      [] OTHER -> \* COMMENT ON TABLE
           IF d.table = q.table /\ q.table # ""
           THEN Done([d EXCEPT !.comment = q.comment])
           ELSE Rejected(d)

\* One statement against the database: the new schema, or a rejection that
\* leaves the schema as it was.
Exec(d, q) ==
    IF q.op \in {"RENAME TABLE", "RENAME COLUMN", "RENAME CONSTRAINT",
                 "RENAME INDEX", "RENAME SEQUENCE", "RENAME TYPE"}
    THEN ExecRename(d, q)
    ELSE IF q.op \in {"DROP CONSTRAINT", "ADD PRIMARY KEY", "ADD UNIQUE",
                      "ADD FOREIGN KEY", "ADD CHECK", "ADD EXCLUDE"}
    THEN ExecConstraint(d, q)
    ELSE IF q.op \in {"ADD COLUMN", "DROP COLUMN", "ALTER COLUMN TYPE",
                      "SET DEFAULT", "DROP DEFAULT", "SET NOT NULL",
                      "DROP NOT NULL", "COMMENT ON COLUMN",
                      "ALTER COLUMN COLLATE", "UPDATE"}
    THEN ExecColumn(d, q)
    ELSE IF q.op \in {"CREATE TABLE", "DROP TABLE", "COMMENT ON TABLE"}
    THEN ExecTable(d, q)
    ELSE ExecObject(d, q)

\* The statements of a list in order up to the first rejection; failAt > 0
\* makes the failAt-th statement fail for a reason outside the schema
\* (lost connection, timeout, data that violates the new constraint).
RECURSIVE ExecFrom(_, _, _, _)
ExecFrom(d, queries, i, failAt) ==
    IF i > Len(queries) THEN [ok |-> TRUE, db |-> d, executed |-> Len(queries)]
    ELSE IF i = failAt THEN [ok |-> FALSE, db |-> d, executed |-> i - 1]
    ELSE LET r == Exec(d, queries[i]) IN
         IF r.ok THEN ExecFrom(r.db, queries, i + 1, failAt)
         ELSE [ok |-> FALSE, db |-> d, executed |-> i - 1]

Reverse(s) == [i \in 1..Len(s) |-> s[Len(s) + 1 - i]]

\* ------------------------------------------------------------------------
\* Schema operations.  Each builder below is the body of the method of the
\* same name up to its executeQueries call: it yields the up and down
\* lists, the error thrown before anything is executed ("" if none), the
\* table the method hands to replaceCachedTable (or leaves the cache with)
\* on success, and the cached table as the method's in-place edits have
\* left it by the time executeQueries runs.  held is what the Table object
\* that was cached when the call began shows once the call has succeeded:
\* the early table when the method replaces the cache entry with a clone,
\* the table after the call when the method edits its argument in place.
\* The table argument is the cached Table (directly or looked up by name
\* with getCachedTable), as the schema builder passes it.
\* ------------------------------------------------------------------------
Plan(error, up, down, early, after) ==
    [error |-> error, up |-> up, down |-> down, early |-> early, after |-> after,
     midAt |-> 0, mid |-> early, held |-> early]

\* The method edits its table argument after executeQueries instead of
\* handing a clone to replaceCachedTable.
InPlace(plan) == [plan EXCEPT !.held = plan.after]

Thrown(error, table) == Plan(error, <<>>, <<>>, table, table)

NoColumn == TableColumn("", "")

\* information_schema.columns.udt_name of the column, as
\* getUserDefinedTypeName(table, column) reads it ("" if there is no row).
getUserDefinedTypeName(d, table, column) ==
    IF d.table = table.name /\ HasDbColumn(d, column.name)
    THEN (CHOOSE c \in d.columns : c.name = column.name).type
    ELSE ""

\* hasEnumType(table, column)
hasEnumType(d, table, column) ==
    buildEnumName(table.name, column, FALSE) \in TypeNames(d)

\* The concatenation of the lists a loop over the members of s appends.
FlatMap(s, f(_)) ==
    LET upTo[i \in 0..Len(s)] == IF i = 0 THEN <<>> ELSE upTo[i - 1] \o f(s[i]) IN
    upTo[Len(s)]

\* renameTable: the unique-constraint loop without its name test (variant)
RenameTableUniquesAlways(oldTable, newTableName, forward) ==
    FlatMap(oldTable.uniques, LAMBDA unique :
        LET newUniqueName == uniqueConstraintName(newTableName, unique.columnNames) IN
        <<IF forward
          THEN RenameSql("RENAME CONSTRAINT", newTableName, unique.name, newUniqueName)
          ELSE RenameSql("RENAME CONSTRAINT", newTableName, newUniqueName,
                         unique.name)>>)

\* renameTable: the statements of the unique-constraint loop
RenameTableUniques(oldTable, newTableName, forward) ==
    FlatMap(oldTable.uniques, LAMBDA unique :
        LET oldUniqueName == uniqueConstraintName(oldTable.name, unique.columnNames)
            newUniqueName == uniqueConstraintName(newTableName, unique.columnNames) IN
        IF unique.name # oldUniqueName THEN <<>>
        ELSE <<IF forward
               THEN RenameSql("RENAME CONSTRAINT", newTableName, unique.name,
                              newUniqueName)
               ELSE RenameSql("RENAME CONSTRAINT", newTableName, newUniqueName,
                              unique.name)>>)

\* renameTable: the statements of the index loop
RenameTableIndices(oldTable, newTableName, forward) ==
    FlatMap(oldTable.indices, LAMBDA index :
        LET oldIndexName == indexName(oldTable.name, index.columnNames, index.where)
            newIndexName == indexName(newTableName, index.columnNames, index.where) IN
        IF index.name # oldIndexName THEN <<>>
        ELSE <<IF forward THEN RenameSql("RENAME INDEX", "", index.name, newIndexName)
               ELSE RenameSql("RENAME INDEX", "", newIndexName, index.name)>>)

\* renameTable: the statements of the foreign-key loop
RenameTableForeignKeys(oldTable, newTableName, forward) ==
    FlatMap(oldTable.foreignKeys, LAMBDA foreignKey :
        LET oldForeignKeyName == foreignKeyName(oldTable.name, foreignKey.columnNames)
            newForeignKeyName == foreignKeyName(newTableName, foreignKey.columnNames) IN
        IF foreignKey.name # oldForeignKeyName THEN <<>>
        ELSE <<IF forward
               THEN RenameSql("RENAME CONSTRAINT", newTableName, foreignKey.name,
                              newForeignKeyName)
               ELSE RenameSql("RENAME CONSTRAINT", newTableName, newForeignKeyName,
                              foreignKey.name)>>)

\* renameTable: primary key, sequences and enum types
RenameTablePrimaryKey(oldTable, newTableName, forward) ==
    LET pk == primaryColumns(oldTable) IN
    IF Len(pk) > 0 /\ pk[1].primaryKeyConstraintName = ""
    THEN LET oldPkName == primaryKeyName(oldTable.name, columnNamesOf(pk))
             newPkName == primaryKeyName(newTableName, columnNamesOf(pk)) IN
         <<IF forward THEN RenameSql("RENAME CONSTRAINT", newTableName, oldPkName,
                                     newPkName)
           ELSE RenameSql("RENAME CONSTRAINT", newTableName, newPkName, oldPkName)>>
    ELSE <<>>

RenameTableSequences(oldTable, newTableName, forward) ==
    FlatMap(oldTable.columns, LAMBDA col :
        IF col.isGenerated /\ col.generationStrategy = "increment"
        THEN LET sequenceName == buildSequenceName(oldTable.name, col.name)
                 newSequenceName == buildSequenceName(newTableName, col.name) IN
             <<IF forward THEN RenameSql("RENAME SEQUENCE", "", sequenceName,
                                         newSequenceName)
               ELSE RenameSql("RENAME SEQUENCE", "", newSequenceName, sequenceName)>>
        ELSE <<>>)

RenameTableEnums(d, oldTable, newTableName, forward) ==
    FlatMap(SelectSeq(oldTable.columns, IsEnum), LAMBDA column :
        IF column.enumName # "" THEN <<>>
        ELSE LET oldEnumType == getUserDefinedTypeName(d, oldTable, column) IN
             <<IF forward
               THEN RenameSql("RENAME TYPE", "", oldEnumType,
                              buildEnumName(newTableName, column, FALSE))
               ELSE RenameSql("RENAME TYPE", "",
                              buildEnumName(newTableName, column, FALSE), oldEnumType)>>)

\* renameTable(oldTableOrName, newTableName).  newTable is never handed to
\* replaceCachedTable: the cached table stays as it was.
renameTable(d, oldTable, newTableName) ==
    Plan("",
         <<RenameSql("RENAME TABLE", oldTable.name, oldTable.name, newTableName)>>
            \o RenameTablePrimaryKey(oldTable, newTableName, TRUE)
            \o RenameTableSequences(oldTable, newTableName, TRUE)
            \o RenameTableUniques(oldTable, newTableName, TRUE)
            \o RenameTableIndices(oldTable, newTableName, TRUE)
            \o RenameTableForeignKeys(oldTable, newTableName, TRUE)
            \o RenameTableEnums(d, oldTable, newTableName, TRUE),
         <<RenameSql("RENAME TABLE", newTableName, newTableName, oldTable.name)>>
            \o RenameTablePrimaryKey(oldTable, newTableName, FALSE)
            \o RenameTableSequences(oldTable, newTableName, FALSE)
            \o RenameTableUniques(oldTable, newTableName, FALSE)
            \o RenameTableIndices(oldTable, newTableName, FALSE)
            \o RenameTableForeignKeys(oldTable, newTableName, FALSE)
            \o RenameTableEnums(d, oldTable, newTableName, FALSE),
         oldTable, oldTable)

\* The uniques of the table once createTableSql has pushed a default-named
\* unique for every isUnique column that no single-column unique covers.
UniquesForCreate(table) ==
    table.uniques \o
    FlatMap(table.columns, LAMBDA column :
        IF column.isUnique /\
           ~\E i \in 1..Len(table.uniques) :
                table.uniques[i].columnNames = <<column.name>>
        THEN <<TableUnique(uniqueConstraintName(table.name, <<column.name>>),
                           <<column.name>>)>>
        ELSE <<>>)

\* The foreign keys of the table once createTableSql has named the unnamed.
ForeignKeysForCreate(table) ==
    [i \in 1..Len(table.foreignKeys) |->
        IF table.foreignKeys[i].name = ""
        THEN [table.foreignKeys[i] EXCEPT !.name =
                 foreignKeyName(table.name, table.foreignKeys[i].columnNames)]
        ELSE table.foreignKeys[i]]

\* The table object as createTableSql leaves it.
AfterCreateTableSql(table, createForeignKeys) ==
    [table EXCEPT !.uniques = UniquesForCreate(table),
                  !.foreignKeys = IF createForeignKeys
                                  THEN ForeignKeysForCreate(table) ELSE @]

\* createTableSql(table, createForeignKeys): column definitions, unique,
\* check, exclusion, foreign-key and primary-key clauses, column comments.
createTableSql(table, createForeignKeys) ==
    LET pk == primaryColumns(table) IN
    [op |-> "CREATE TABLE", table |-> table.name,
     clauses |->
        [i \in 1..Len(table.columns) |-> AddColumnSql(table, table.columns[i])]
        \o FlatMap(UniquesForCreate(table), LAMBDA unique :
              <<createUniqueConstraintSql(table,
                  [unique EXCEPT !.name =
                      IF @ # "" THEN @
                      ELSE uniqueConstraintName(table.name, unique.columnNames)])>>)
        \o FlatMap(table.checks, LAMBDA check :
              <<createCheckConstraintSql(table,
                  [check EXCEPT !.name =
                      IF @ # "" THEN @
                      ELSE checkConstraintName(table.name, check.expression)])>>)
        \o FlatMap(table.exclusions, LAMBDA exclusion :
              <<createExclusionConstraintSql(table,
                  [exclusion EXCEPT !.name =
                      IF @ # "" THEN @
                      ELSE exclusionConstraintName(table.name,
                                                   exclusion.expression)])>>)
        \o (IF createForeignKeys
            THEN FlatMap(ForeignKeysForCreate(table), LAMBDA fk :
                    <<createForeignKeySql(table, fk)>>)
            ELSE <<>>)
        \o (IF Len(pk) > 0
            THEN <<createPrimaryKeySql(table, columnNamesOf(pk),
                                       pk[1].primaryKeyConstraintName)>>
            ELSE <<>>)
        \o FlatMap(table.columns, LAMBDA it :
              IF it.comment # ""
              THEN <<AlterColumnSql("COMMENT ON COLUMN", table.name, it.name,
                                    it.comment)>> ELSE <<>>)]

dropTableSql(table) == [op |-> "DROP TABLE", table |-> table.name]

\* insertTypeormMetadataSql / deleteTypeormMetadataSql for a generated column
insertTypeormMetadataSql(table, column) ==
    [op |-> "INSERT METADATA", table |-> table.name, name |-> column.name,
     value |-> column.asExpression]

deleteTypeormMetadataSql(table, column) ==
    [op |-> "DELETE METADATA", table |-> table.name, name |-> column.name]

CommentTableSql(tableName, comment) ==
    [op |-> "COMMENT ON TABLE", table |-> tableName, comment |-> comment]

\* (variant: createTable without its createdEnumTypes list)
EnumColumnsToCreateAll(d, table) ==
    SelectSeq(table.columns,
              LAMBDA column : IsEnum(column) /\ ~hasEnumType(d, table, column))

\* The enum columns createTable creates a type for: the type does not
\* exist yet and no earlier column of the table has the same type name.
EnumColumnsToCreate(d, table) ==
    LET enumColumns == SelectSeq(table.columns, IsEnum) IN
    FlatMap([i \in 1..Len(enumColumns) |-> i], LAMBDA i :
        IF /\ ~hasEnumType(d, table, enumColumns[i])
           /\ \A j \in 1..(i - 1) :
                 buildEnumName(table.name, enumColumns[j], FALSE)
                    # buildEnumName(table.name, enumColumns[i], FALSE)
        THEN <<enumColumns[i]>> ELSE <<>>)

IndicesForCreate(table) ==
    [i \in 1..Len(table.indices) |->
        IF table.indices[i].name = ""
        THEN [table.indices[i] EXCEPT !.name =
                 indexName(table.name, table.indices[i].columnNames,
                           table.indices[i].where)]
        ELSE table.indices[i]]

\* (variant: the enum types are created after the table)
createTableTypesLast(d, table, ifNotExist, createForeignKeys, createIndices) ==
    IF ifNotExist /\ d.table = table.name THEN Thrown("", table)
    ELSE
    LET toCreate == EnumColumnsToCreate(d, table)
        generatedColumns == SelectSeq(table.columns, LAMBDA column :
            column.generatedType = "STORED" /\ column.asExpression # "")
        after == [AfterCreateTableSql(table, createForeignKeys) EXCEPT
                     !.indices = IF createIndices THEN IndicesForCreate(table)
                                 ELSE @] IN
    Plan("",
         FlatMap(generatedColumns, LAMBDA column :
             <<insertTypeormMetadataSql(table, column)>>)
         \o <<createTableSql(table, createForeignKeys)>>
         \o FlatMap(toCreate, LAMBDA column :
             <<createEnumTypeSql(table, column,
                                 buildEnumName(table.name, column, FALSE))>>)
         \o (IF createIndices
             THEN FlatMap(IndicesForCreate(table), LAMBDA index :
                     <<createIndexSql(table, index)>>)
             ELSE <<>>)
         \o (IF table.comment # ""
             THEN <<CommentTableSql(table.name, table.comment)>> ELSE <<>>),
         FlatMap(toCreate, LAMBDA column :
             <<dropEnumTypeSql(table, column,
                               buildEnumName(table.name, column, FALSE))>>)
         \o FlatMap(generatedColumns, LAMBDA column :
             <<deleteTypeormMetadataSql(table, column)>>)
         \o <<dropTableSql(table)>>
         \o (IF createForeignKeys
             THEN FlatMap(ForeignKeysForCreate(table), LAMBDA foreignKey :
                     <<dropForeignKeySql(table, foreignKey)>>)
             ELSE <<>>)
         \o (IF createIndices
             THEN FlatMap(IndicesForCreate(table), LAMBDA index :
                     <<dropIndexSql(table, index)>>)
             ELSE <<>>)
         \o (IF table.comment # ""
             THEN <<CommentTableSql(table.name, "")>> ELSE <<>>),
         after, after)

\* createTable(table, ifNotExist, createForeignKeys, createIndices)
createTable(d, table, ifNotExist, createForeignKeys, createIndices) ==
    IF ifNotExist /\ d.table = table.name THEN Thrown("", table)
    ELSE
    LET toCreate == EnumColumnsToCreate(d, table)
        generatedColumns == SelectSeq(table.columns, LAMBDA column :
            column.generatedType = "STORED" /\ column.asExpression # "")
        after == [AfterCreateTableSql(table, createForeignKeys) EXCEPT
                     !.indices = IF createIndices THEN IndicesForCreate(table)
                                 ELSE @] IN
    Plan("",
         FlatMap(toCreate, LAMBDA column :
             <<createEnumTypeSql(table, column,
                                 buildEnumName(table.name, column, FALSE))>>)
         \o FlatMap(generatedColumns, LAMBDA column :
             <<insertTypeormMetadataSql(table, column)>>)
         \o <<createTableSql(table, createForeignKeys)>>
         \o (IF createIndices
             THEN FlatMap(IndicesForCreate(table), LAMBDA index :
                     <<createIndexSql(table, index)>>)
             ELSE <<>>)
         \o (IF table.comment # ""
             THEN <<CommentTableSql(table.name, table.comment)>> ELSE <<>>),
         FlatMap(toCreate, LAMBDA column :
             <<dropEnumTypeSql(table, column,
                               buildEnumName(table.name, column, FALSE))>>)
         \o FlatMap(generatedColumns, LAMBDA column :
             <<deleteTypeormMetadataSql(table, column)>>)
         \o <<dropTableSql(table)>>
         \o (IF createForeignKeys
             THEN FlatMap(ForeignKeysForCreate(table), LAMBDA foreignKey :
                     <<dropForeignKeySql(table, foreignKey)>>)
             ELSE <<>>)
         \o (IF createIndices
             THEN FlatMap(IndicesForCreate(table), LAMBDA index :
                     <<dropIndexSql(table, index)>>)
             ELSE <<>>)
         \o (IF table.comment # ""
             THEN <<CommentTableSql(table.name, "")>> ELSE <<>>),
         after, after)

\* dropTable(target, ifExist, dropForeignKeys, dropIndices)
dropTable(d, table, ifExist, dropForeignKeys, dropIndices) ==
    IF ifExist /\ d.table # table.name THEN Thrown("", table)
    ELSE
    LET generatedColumns == SelectSeq(table.columns, LAMBDA column :
            column.generatedType # "" /\ column.asExpression # "")
        after == AfterCreateTableSql(table, dropForeignKeys) IN
    Plan("",
         (IF dropIndices
          THEN FlatMap(table.indices, LAMBDA index : <<dropIndexSql(table, index)>>)
          ELSE <<>>)
         \o (IF dropForeignKeys
             THEN FlatMap(table.foreignKeys, LAMBDA foreignKey :
                     <<dropForeignKeySql(table, foreignKey)>>)
             ELSE <<>>)
         \o <<dropTableSql(table)>>
         \o FlatMap(generatedColumns, LAMBDA column :
               <<deleteTypeormMetadataSql(table, column)>>),
         (IF dropIndices
          THEN FlatMap(table.indices, LAMBDA index : <<createIndexSql(table, index)>>)
          ELSE <<>>)
         \o <<createTableSql(table, dropForeignKeys)>>
         \o FlatMap(generatedColumns, LAMBDA column :
               <<insertTypeormMetadataSql(table, column)>>),
         after, after)


\* primaryColumns[0].primaryKeyConstraintName, else the default name
PrimaryKeyNameOf(tableName, pk) ==
    IF pk[1].primaryKeyConstraintName # "" THEN pk[1].primaryKeyConstraintName
    ELSE primaryKeyName(tableName, columnNamesOf(pk))

AddPrimaryKeySql(tableName, name, columnNames) ==
    [op |-> "ADD PRIMARY KEY", table |-> tableName, name |-> name,
     columnNames |-> columnNames]

DropConstraintSql(tableName, name) ==
    [op |-> "DROP CONSTRAINT", table |-> tableName, name |-> name]

\* The first index / unique / check over exactly the one column
\* (position in the list, 0 if there is none).
FirstOver(members, columnName) ==
    IF \E i \in 1..Len(members) : members[i].columnNames = <<columnName>>
    THEN CHOOSE i \in 1..Len(members) :
            /\ members[i].columnNames = <<columnName>>
            /\ \A j \in 1..(i - 1) : members[j].columnNames # <<columnName>>
    ELSE 0

\* addColumn(tableOrName, column)
addColumn(d, table, column) ==
    LET pk == primaryColumns(table)
        newPk == Append(pk, column)
        columnIndex == FirstOver(table.indices, column.name)
        uniqueConstraint ==
            TableUnique(uniqueConstraintName(table.name, <<column.name>>),
                        <<column.name>>)
        createType == IsEnum(column) /\ ~hasEnumType(d, table, column)
        stored == column.generatedType = "STORED" /\ column.asExpression # ""
        clonedTable ==
            [table EXCEPT
               !.uniques = IF column.isUnique THEN Append(@, uniqueConstraint)
                           ELSE @,
               !.columns = Append(@, column)] IN
    Plan("",
         (IF createType THEN <<createEnumTypeSql(table, column, "")>> ELSE <<>>)
         \o <<AddColumnSql(table, column)>>
         \o (IF column.isPrimary /\ Len(pk) > 0
             THEN <<DropConstraintSql(table.name, PrimaryKeyNameOf(table.name, pk))>>
             ELSE <<>>)
         \o (IF column.isPrimary
             THEN <<AddPrimaryKeySql(table.name,
                                     PrimaryKeyNameOf(table.name, newPk),
                                     columnNamesOf(newPk))>>
             ELSE <<>>)
         \o (IF columnIndex # 0
             THEN <<createIndexSql(table, table.indices[columnIndex])>> ELSE <<>>)
         \o (IF column.isUnique
             THEN <<createUniqueConstraintSql(table, uniqueConstraint)>> ELSE <<>>)
         \o (IF stored THEN <<insertTypeormMetadataSql(table, column)>> ELSE <<>>)
         \o (IF column.comment # ""
             THEN <<AlterColumnSql("COMMENT ON COLUMN", table.name, column.name,
                                   column.comment)>>
             ELSE <<>>),
         (IF createType THEN <<dropEnumTypeSql(table, column, "")>> ELSE <<>>)
         \o <<DropColumnSql(table, column)>>
         \o (IF column.isPrimary /\ Len(pk) > 0
             THEN <<AddPrimaryKeySql(table.name, PrimaryKeyNameOf(table.name, pk),
                                     columnNamesOf(pk))>>
             ELSE <<>>)
         \o (IF column.isPrimary
             THEN <<DropConstraintSql(table.name,
                                      PrimaryKeyNameOf(table.name, newPk))>>
             ELSE <<>>)
         \o (IF columnIndex # 0
             THEN <<dropIndexSql(table, table.indices[columnIndex])>> ELSE <<>>)
         \o (IF column.isUnique
             THEN <<dropUniqueConstraintSql(table, uniqueConstraint)>> ELSE <<>>)
         \o (IF stored THEN <<deleteTypeormMetadataSql(table, column)>> ELSE <<>>)
         \o (IF column.comment # ""
             THEN <<AlterColumnSql("COMMENT ON COLUMN", table.name, column.name,
                                   column.comment)>>
             ELSE <<>>),
         table, clonedTable)

\* dropColumn(tableOrName, columnOrName); the column is looked up by name.
dropColumn(d, table, columnName) ==
    LET at == findColumnByName(table, columnName) IN
    IF at = 0 THEN Thrown("ColumnNotFound", table)
    ELSE
    LET column == table.columns[at]
        pk == primaryColumns(table)
        pkName == IF column.primaryKeyConstraintName # ""
                  THEN column.primaryKeyConstraintName
                  ELSE primaryKeyName(table.name, columnNamesOf(pk))
        unmarked == [table EXCEPT !.columns[at].isPrimary = FALSE]
        restPk == primaryColumns(unmarked)
        columnIndex == FirstOver(table.indices, column.name)
        columnCheck == FirstOver(table.checks, column.name)
        columnUnique == FirstOver(table.uniques, column.name)
        dropType == IsEnum(column) /\ hasEnumType(d, table, column)
        enumType == getUserDefinedTypeName(d, table, column)
        clonedTable ==
            [(IF column.isPrimary THEN unmarked ELSE table) EXCEPT
               !.indices = IF columnIndex # 0 THEN Remove(@, columnIndex) ELSE @,
               !.checks = IF columnCheck # 0 THEN Remove(@, columnCheck) ELSE @,
               !.uniques = IF columnUnique # 0 THEN Remove(@, columnUnique) ELSE @,
               !.columns = Remove(@, at)] IN
    Plan("",
         (IF column.isPrimary
          THEN <<DropConstraintSql(table.name, pkName)>>
               \o (IF Len(restPk) > 0
                   THEN <<AddPrimaryKeySql(table.name,
                                           PrimaryKeyNameOf(table.name, restPk),
                                           columnNamesOf(restPk))>>
                   ELSE <<>>)
          ELSE <<>>)
         \o (IF columnIndex # 0
             THEN <<dropIndexSql(table, table.indices[columnIndex])>> ELSE <<>>)
         \o (IF columnCheck # 0
             THEN <<dropCheckConstraintSql(table, table.checks[columnCheck])>>
             ELSE <<>>)
         \o (IF columnUnique # 0
             THEN <<dropUniqueConstraintSql(table, table.uniques[columnUnique])>>
             ELSE <<>>)
         \o <<DropColumnSql(table, column)>>
         \o (IF dropType THEN <<dropEnumTypeSql(table, column, enumType)>> ELSE <<>>)
         \o (IF column.generatedType = "STORED"
             THEN <<deleteTypeormMetadataSql(table, column)>> ELSE <<>>),
         (IF column.isPrimary
          THEN <<AddPrimaryKeySql(table.name, pkName, columnNamesOf(pk))>>
               \o (IF Len(restPk) > 0
                   THEN <<DropConstraintSql(table.name,
                                            PrimaryKeyNameOf(table.name, restPk))>>
                   ELSE <<>>)
          ELSE <<>>)
         \o (IF columnIndex # 0
             THEN <<createIndexSql(table, table.indices[columnIndex])>> ELSE <<>>)
         \o (IF columnCheck # 0
             THEN <<createCheckConstraintSql(table, table.checks[columnCheck])>>
             ELSE <<>>)
         \o (IF columnUnique # 0
             THEN <<createUniqueConstraintSql(table, table.uniques[columnUnique])>>
             ELSE <<>>)
         \o <<AddColumnSql(table, column)>>
         \o (IF dropType THEN <<createEnumTypeSql(table, column, enumType)>>
             ELSE <<>>)
         \o (IF column.generatedType = "STORED"
             THEN <<insertTypeormMetadataSql(table, column)>> ELSE <<>>),
         table, clonedTable)

\* names.splice(names.indexOf(old), 1); names.push(new)
MoveToEnd(names, old, new) ==
    LET at == CHOOSE i \in 1..Len(names) :
                 names[i] = old /\ \A j \in 1..(i - 1) : names[j] # old IN
    Append(Remove(names, at), new)

\* A piece of a method's work: the statements it appends to the up and
\* down lists and the cloned table as it leaves it.
Step(up, down, clonedTable) == [up |-> up, down |-> down, clonedTable |-> clonedTable]

NoStep(clonedTable) == Step(<<>>, <<>>, clonedTable)

\* changeColumn, `if (oldColumn.name !== newColumn.name)` (lines 2451-2725)
ChangeColumnRename(d, table, clonedTable, oldColumn, newColumn) ==
    LET \* the members among uniques / indices / foreign keys that carry the
        \* default name, with their new column names and new name;
        \* defaultName(columnNames, member) is the naming strategy
        RenamedMembers(members, defaultName(_, _)) ==
            [i \in 1..Len(members) |->
                LET member == members[i] IN
                IF Includes(member.columnNames, oldColumn.name)
                   /\ member.name = defaultName(member.columnNames, member)
                THEN LET columnNames == MoveToEnd(member.columnNames, oldColumn.name,
                                                  newColumn.name) IN
                     [member EXCEPT !.columnNames = columnNames,
                                    !.name = defaultName(columnNames, member)]
                ELSE member]
        \* the positions of the members renamed
        RenamedAt(members, defaultName(_, _)) ==
            SelectSeq([i \in 1..Len(members) |-> i], LAMBDA i :
                /\ Includes(members[i].columnNames, oldColumn.name)
                /\ members[i].name = defaultName(members[i].columnNames, members[i]))
        pk == primaryColumns(clonedTable)
        oldPkName == primaryKeyName(clonedTable.name, columnNamesOf(pk))
        newPkName == primaryKeyName(clonedTable.name,
                        MoveToEnd(columnNamesOf(pk), oldColumn.name, newColumn.name))
        oldEnumType == getUserDefinedTypeName(d, table, oldColumn)
        uniqueOrName(columnNames, unique) ==
            uniqueConstraintName(clonedTable.name, columnNames)
        indexNameOf(columnNames, index) ==
            indexName(clonedTable.name, columnNames, index.where)
        foreignKeyNameOf(columnNames, foreignKey) ==
            foreignKeyName(clonedTable.name, columnNames)
        uniques == RenamedMembers(clonedTable.uniques, uniqueOrName)
        indices == RenamedMembers(clonedTable.indices, indexNameOf)
        foreignKeys == RenamedMembers(clonedTable.foreignKeys, foreignKeyNameOf)
        renameEnum == IsEnum(oldColumn)
        renamePk == oldColumn.isPrimary /\ oldColumn.primaryKeyConstraintName = ""
        renameSequence == oldColumn.isGenerated
                          /\ newColumn.generationStrategy = "increment"
        at == findColumnByName(clonedTable, oldColumn.name) IN
    Step(
        <<RenameSql("RENAME COLUMN", table.name, oldColumn.name, newColumn.name)>>
        \o (IF renameEnum
            THEN <<RenameSql("RENAME TYPE", "", oldEnumType,
                             buildEnumName(table.name, newColumn, FALSE))>>
            ELSE <<>>)
        \o (IF renamePk
            THEN <<RenameSql("RENAME CONSTRAINT", table.name, oldPkName, newPkName)>>
            ELSE <<>>)
        \o (IF renameSequence
            THEN <<RenameSql("RENAME SEQUENCE", "",
                             buildSequenceName(table.name, oldColumn.name),
                             buildSequenceName(table.name, newColumn.name))>>
            ELSE <<>>)
        \o FlatMap(RenamedAt(clonedTable.uniques, uniqueOrName), LAMBDA i :
              <<RenameSql("RENAME CONSTRAINT", table.name, clonedTable.uniques[i].name,
                          uniques[i].name)>>)
        \o FlatMap(RenamedAt(clonedTable.indices, indexNameOf), LAMBDA i :
              <<RenameSql("RENAME INDEX", "", clonedTable.indices[i].name,
                          indices[i].name)>>)
        \o FlatMap(RenamedAt(clonedTable.foreignKeys, foreignKeyNameOf),
              LAMBDA i :
              <<RenameSql("RENAME CONSTRAINT", table.name,
                          clonedTable.foreignKeys[i].name, foreignKeys[i].name)>>),
        <<RenameSql("RENAME COLUMN", table.name, newColumn.name, oldColumn.name)>>
        \o (IF renameEnum
            THEN <<RenameSql("RENAME TYPE", "",
                             buildEnumName(table.name, newColumn, FALSE), oldEnumType)>>
            ELSE <<>>)
        \o (IF renamePk
            THEN <<RenameSql("RENAME CONSTRAINT", table.name, newPkName, oldPkName)>>
            ELSE <<>>)
        \o (IF renameSequence
            THEN <<RenameSql("RENAME SEQUENCE", "",
                             buildSequenceName(table.name, newColumn.name),
                             buildSequenceName(table.name, oldColumn.name))>>
            ELSE <<>>)
        \o FlatMap(RenamedAt(clonedTable.uniques, uniqueOrName), LAMBDA i :
              <<RenameSql("RENAME CONSTRAINT", table.name, uniques[i].name,
                          clonedTable.uniques[i].name)>>)
        \o FlatMap(RenamedAt(clonedTable.indices, indexNameOf), LAMBDA i :
              <<RenameSql("RENAME INDEX", "", indices[i].name,
                          clonedTable.indices[i].name)>>)
        \o FlatMap(RenamedAt(clonedTable.foreignKeys, foreignKeyNameOf),
              LAMBDA i :
              <<RenameSql("RENAME CONSTRAINT", table.name, foreignKeys[i].name,
                          clonedTable.foreignKeys[i].name)>>),
        [clonedTable EXCEPT !.uniques = uniques, !.indices = indices,
                            !.foreignKeys = foreignKeys,
                            !.columns[at].name = newColumn.name])

\* OrmUtils.isArraysEqual(arr1, arr2)
isArraysEqual(arr1, arr2) ==
    /\ Len(arr1) = Len(arr2)
    /\ \A i \in 1..Len(arr1) : Includes(arr2, arr1[i])

\* changeColumn, precision / scale (lines 2726-2745)
ChangeColumnPrecision(table, clonedTable, oldColumn, newColumn) ==
    IF newColumn.precision # oldColumn.precision \/ newColumn.scale # oldColumn.scale
    THEN Step(<<AlterColumnTypeSql(table.name, newColumn.name,
                                   createFullType(newColumn), FALSE)>>,
              <<AlterColumnTypeSql(table.name, newColumn.name,
                                   createFullType(oldColumn), FALSE)>>,
              clonedTable)
    ELSE NoStep(clonedTable)

\* The test of the enum branch (lines 2747-2754)
EnumChanged(oldColumn, newColumn) ==
    /\ IsEnum(newColumn)
    /\ IsEnum(oldColumn)
    /\ \/ ~isArraysEqual(newColumn.enum, oldColumn.enum)
       \/ newColumn.enumName # oldColumn.enumName

\* changeColumn, enum branch (lines 2747-2891): the old type is renamed
\* aside, the new one created, the column switched over, the old dropped.
ChangeColumnEnum(table, clonedTable, oldColumn, newColumn) ==
    IF ~EnumChanged(oldColumn, newColumn) THEN NoStep(clonedTable)
    ELSE
    LET arraySuffix == IF newColumn.isArray THEN "[]" ELSE ""
        newEnumName == buildEnumName(table.name, newColumn, FALSE)
        oldEnumName == buildEnumName(table.name, oldColumn, FALSE)
        oldEnumName_old == buildEnumName(table.name, oldColumn, TRUE) IN
    Step(
        <<RenameSql("RENAME TYPE", "", oldEnumName, oldEnumName_old),
          createEnumTypeSql(table, newColumn, newEnumName)>>
        \o (IF oldColumn.default # ""
            THEN <<AlterColumnSql("DROP DEFAULT", table.name, oldColumn.name,
                                  "")>> ELSE <<>>)
        \o <<AlterColumnTypeSql(table.name, newColumn.name,
                                newEnumName \o arraySuffix, TRUE)>>
        \o (IF newColumn.default # ""
            THEN <<AlterColumnSql("SET DEFAULT", table.name, newColumn.name,
                                  newColumn.default)>>
            ELSE <<>>)
        \o <<dropEnumTypeSql(table, oldColumn, oldEnumName_old)>>,
        <<RenameSql("RENAME TYPE", "", oldEnumName_old, oldEnumName),
          dropEnumTypeSql(table, newColumn, newEnumName)>>
        \o (IF oldColumn.default # ""
            THEN <<AlterColumnSql("SET DEFAULT", table.name, oldColumn.name,
                                  oldColumn.default)>>
            ELSE <<>>)
        \o <<AlterColumnTypeSql(table.name, newColumn.name,
                                oldEnumName_old \o arraySuffix, TRUE)>>
        \o (IF newColumn.default # ""
            THEN <<AlterColumnSql("DROP DEFAULT", table.name, newColumn.name,
                                  "")>> ELSE <<>>)
        \o <<createEnumTypeSql(table, oldColumn, oldEnumName_old)>>,
        clonedTable)

\* `defaultValueChanged` once the enum branch is past (line 2814)
DefaultValueChanged(oldColumn, newColumn) ==
    EnumChanged(oldColumn, newColumn) /\ oldColumn.default # ""

\* changeColumn, nullability (lines 2892-2925)
ChangeColumnNullable(table, clonedTable, oldColumn, newColumn) ==
    IF oldColumn.isNullable = newColumn.isNullable THEN NoStep(clonedTable)
    ELSE IF newColumn.isNullable
    THEN Step(<<AlterColumnSql("DROP NOT NULL", table.name, oldColumn.name, "")>>,
              <<AlterColumnSql("SET NOT NULL", table.name, oldColumn.name,
                               "")>>, clonedTable)
    ELSE Step(<<AlterColumnSql("SET NOT NULL", table.name, oldColumn.name, "")>>,
              <<AlterColumnSql("DROP NOT NULL", table.name, oldColumn.name,
                               "")>>, clonedTable)

\* changeColumn, comment (lines 2927-2942)
ChangeColumnComment(table, clonedTable, oldColumn, newColumn) ==
    IF oldColumn.comment = newColumn.comment THEN NoStep(clonedTable)
    ELSE Step(<<AlterColumnSql("COMMENT ON COLUMN", table.name, oldColumn.name,
                               newColumn.comment)>>,
              <<AlterColumnSql("COMMENT ON COLUMN", table.name, newColumn.name,
                               oldColumn.comment)>>,
              clonedTable)

\* changeColumn, isPrimary (lines 2944-3053): the existing constraint is
\* dropped, then one over the new set of primary columns is added.
ChangeColumnPrimary(table, clonedTable, oldColumn, newColumn) ==
    IF newColumn.isPrimary = oldColumn.isPrimary THEN NoStep(clonedTable)
    ELSE
    LET pk == primaryColumns(clonedTable)
        at == findColumnByName(clonedTable, newColumn.name)
        newPk == IF newColumn.isPrimary THEN Append(pk, newColumn)
                 ELSE SelectSeq(pk, LAMBDA c : c.name # newColumn.name)
        dropOld == Len(pk) > 0
        addNew == Len(newPk) > 0 IN
    Step((IF dropOld
          THEN <<DropConstraintSql(table.name,
                                   PrimaryKeyNameOf(clonedTable.name, pk))>>
          ELSE <<>>)
         \o (IF addNew
             THEN <<AddPrimaryKeySql(table.name,
                                     PrimaryKeyNameOf(clonedTable.name, newPk),
                                     columnNamesOf(newPk))>>
             ELSE <<>>),
         (IF dropOld
          THEN <<AddPrimaryKeySql(table.name,
                                  PrimaryKeyNameOf(clonedTable.name, pk),
                                  columnNamesOf(pk))>>
          ELSE <<>>)
         \o (IF addNew
             THEN <<DropConstraintSql(table.name,
                                      PrimaryKeyNameOf(clonedTable.name, newPk))>>
             ELSE <<>>),
         [clonedTable EXCEPT !.columns[at].isPrimary = newColumn.isPrimary])

\* changeColumn, isUnique (lines 3055-3114)
ChangeColumnUnique(table, clonedTable, oldColumn, newColumn) ==
    IF newColumn.isUnique = oldColumn.isUnique THEN NoStep(clonedTable)
    ELSE IF newColumn.isUnique
    THEN LET uniqueConstraint ==
                TableUnique(uniqueConstraintName(table.name, <<newColumn.name>>),
                            <<newColumn.name>>) IN
         Step(<<createUniqueConstraintSql(table, uniqueConstraint)>>,
              <<dropUniqueConstraintSql(table, uniqueConstraint)>>,
              [clonedTable EXCEPT !.uniques = Append(@, uniqueConstraint)])
    ELSE LET at == FirstOver(clonedTable.uniques, newColumn.name)
             uniqueConstraint == clonedTable.uniques[at] IN
         Step(<<dropUniqueConstraintSql(table, uniqueConstraint)>>,
              <<createUniqueConstraintSql(table,
                   [uniqueConstraint EXCEPT !.columnNames = <<newColumn.name>>])>>,
              [clonedTable EXCEPT !.uniques = Remove(@, at)])

\* driver.uuidGenerator
uuidGenerator == "uuid_generate_v4()"

\* The step that appends the pairs <<up statement, down statement>> in order.
StepOf(pairs, clonedTable) ==
    Step([i \in 1..Len(pairs) |-> pairs[i][1]],
         [i \in 1..Len(pairs) |-> pairs[i][2]], clonedTable)

\* changeColumn, isGenerated (lines 3116-3298)
ChangeColumnGenerated(table, clonedTable, oldColumn, newColumn) ==
    IF oldColumn.isGenerated = newColumn.isGenerated THEN NoStep(clonedTable)
    ELSE
    LET sequence == buildSequenceName(table.name, newColumn.name)
        dropSequence ==
            <<<<AlterColumnSql("DROP DEFAULT", table.name, newColumn.name, ""),
                AlterColumnSql("SET DEFAULT", table.name, newColumn.name,
                               NextVal(sequence))>>,
              <<DropSequenceSql(sequence),
                CreateSequenceSql(sequence, table.name, newColumn.name)>>>>
        clearOld ==
            IF ~oldColumn.isGenerated THEN <<>>
            ELSE IF oldColumn.generationStrategy = "uuid"
            THEN <<<<AlterColumnSql("DROP DEFAULT", table.name, oldColumn.name, ""),
                     AlterColumnSql("SET DEFAULT", table.name, oldColumn.name,
                                    uuidGenerator)>>>>
            ELSE IF oldColumn.generationStrategy = "increment" THEN dropSequence
            ELSE <<>>
        setNew ==
            IF newColumn.generationStrategy = "uuid"
            THEN IF newColumn.isGenerated
                 THEN <<<<AlterColumnSql("SET DEFAULT", table.name, newColumn.name,
                                         uuidGenerator),
                          AlterColumnSql("DROP DEFAULT", table.name, newColumn.name,
                                         "")>>>>
                 ELSE <<<<AlterColumnSql("DROP DEFAULT", table.name, newColumn.name,
                                         ""),
                          AlterColumnSql("SET DEFAULT", table.name, newColumn.name,
                                         uuidGenerator)>>>>
            ELSE IF newColumn.generationStrategy = "increment"
            THEN IF newColumn.isGenerated
                 THEN <<<<CreateSequenceSql(sequence, table.name, newColumn.name),
                          DropSequenceSql(sequence)>>,
                        <<AlterColumnSql("SET DEFAULT", table.name, newColumn.name,
                                         NextVal(sequence)),
                          AlterColumnSql("DROP DEFAULT", table.name, newColumn.name,
                                         "")>>>>
                 ELSE dropSequence
            ELSE <<>> IN
    StepOf(clearOld \o setNew, clonedTable)

\* changeColumn, default (lines 3300-3364)
ChangeColumnDefault(table, clonedTable, oldColumn, newColumn, defaultValueChanged) ==
    IF newColumn.default = oldColumn.default \/ defaultValueChanged
    THEN NoStep(clonedTable)
    ELSE IF newColumn.default # ""
    THEN Step(<<AlterColumnSql("SET DEFAULT", table.name, newColumn.name,
                               newColumn.default)>>,
              <<IF oldColumn.default # ""
                THEN AlterColumnSql("SET DEFAULT", table.name, newColumn.name,
                                    oldColumn.default)
                ELSE AlterColumnSql("DROP DEFAULT", table.name, newColumn.name, "")>>,
              clonedTable)
    ELSE Step(<<AlterColumnSql("DROP DEFAULT", table.name, newColumn.name, "")>>,
              <<AlterColumnSql("SET DEFAULT", table.name, newColumn.name,
                               oldColumn.default)>>,
              clonedTable)

\* changeColumn, spatial feature type / srid (lines 3366-3385)
ChangeColumnSpatial(table, clonedTable, oldColumn, newColumn) ==
    IF newColumn.spatialFeatureType # oldColumn.spatialFeatureType
       \/ newColumn.srid # oldColumn.srid
    THEN Step(<<AlterColumnTypeSql(table.name, newColumn.name,
                                   createFullType(newColumn), FALSE)>>,
              <<AlterColumnTypeSql(table.name, newColumn.name,
                                   createFullType(oldColumn), FALSE)>>,
              clonedTable)
    ELSE NoStep(clonedTable)

\* `ALTER TABLE t ALTER COLUMN "c" TYPE <type> COLLATE <collation>`
AlterColumnCollationSql(tableName, columnName, type, collation) ==
    [op |-> "ALTER COLUMN COLLATE", table |-> tableName, column |-> columnName,
     type |-> type, collation |-> collation]

\* changeColumn, collation (lines 3387-3410); an absent new collation is
\* interpolated as the text "undefined", an absent old one is written as
\* pg_catalog."default".
ChangeColumnCollation(table, clonedTable, oldColumn, newColumn) ==
    IF newColumn.collation = oldColumn.collation THEN NoStep(clonedTable)
    ELSE Step(<<AlterColumnCollationSql(table.name, newColumn.name, newColumn.type,
                   IF newColumn.collation # "" THEN newColumn.collation
                   ELSE "undefined")>>,
              <<AlterColumnCollationSql(table.name, newColumn.name, newColumn.type,
                   IF oldColumn.collation # "" THEN oldColumn.collation
                   ELSE "default")>>,
              clonedTable)

\* changeColumn, generatedType (lines 3412-3505): a generated column
\* becomes a plain one by way of a temporary column.
ChangeColumnGeneratedType(table, clonedTable, oldColumn, newColumn) ==
    IF newColumn.generatedType # oldColumn.generatedType
       /\ newColumn.generatedType \in {"", "VIRTUAL"}
    THEN LET temp == "TEMP_OLD_" \o oldColumn.name IN
         Step(<<RenameSql("RENAME COLUMN", table.name, oldColumn.name, temp),
                AddColumnSql(table, newColumn),
                AlterColumnSql("UPDATE", table.name, newColumn.name, temp),
                [op |-> "DROP COLUMN", table |-> table.name, name |-> temp],
                deleteTypeormMetadataSql(table, oldColumn)>>,
              <<insertTypeormMetadataSql(table, oldColumn),
                AddColumnSql(table, oldColumn),
                DropColumnSql(table, newColumn)>>,
              clonedTable)
    ELSE NoStep(clonedTable)

\* The test that sends changeColumn down the drop-and-add path
\* (lines 2437-2444)
MustRecreate(oldColumn, newColumn) ==
    \/ oldColumn.type # newColumn.type
    \/ oldColumn.length # newColumn.length
    \/ newColumn.isArray # oldColumn.isArray
    \/ oldColumn.generatedType = "" /\ newColumn.generatedType = "STORED"
    \/ oldColumn.asExpression # newColumn.asExpression
       /\ newColumn.generatedType = "STORED"

\* A variant of changeColumn that pushes the statements of the default
\* before those of the nullability.
changeColumnDefaultFirst(d, table, oldColumnName, newColumn) ==
    LET at == findColumnByName(table, oldColumnName) IN
    IF at = 0 THEN Thrown("ColumnNotFound", table)
    ELSE
    LET given == table.columns[at] IN
    IF MustRecreate(given, newColumn)
    THEN LET drop == dropColumn(d, table, given.name)
             dropped == ExecFrom(d, drop.up, 1, 0).db
             add == addColumn(dropped, drop.after, newColumn) IN
         [Plan("", drop.up \o add.up, drop.down \o add.down, table, add.after)
            EXCEPT !.midAt = Len(drop.up), !.mid = drop.after]
    ELSE
    LET renamed == given.name # newColumn.name
        \* `oldColumn.name = newColumn.name` (line 2724) edits the cached
        \* column in place; every later branch reads the new name from it.
        oldColumn == [given EXCEPT !.name = newColumn.name]
        early == [table EXCEPT !.columns[at].name = newColumn.name]
        s1 == IF renamed
              THEN ChangeColumnRename(d, table, table, given, newColumn)
              ELSE NoStep(table)
        s2 == ChangeColumnPrecision(table, s1.clonedTable, oldColumn, newColumn)
        s3 == ChangeColumnEnum(table, s2.clonedTable, oldColumn, newColumn)
        s4 == ChangeColumnNullable(table, s3.clonedTable, oldColumn, newColumn)
        s5 == ChangeColumnComment(table, s4.clonedTable, oldColumn, newColumn)
        s6 == ChangeColumnPrimary(table, s5.clonedTable, oldColumn, newColumn)
        unique == newColumn.isUnique # oldColumn.isUnique
        missing == unique /\ ~newColumn.isUnique
                   /\ FirstOver(s6.clonedTable.uniques, newColumn.name) = 0 IN
    IF missing THEN Thrown("TypeError", early)
    ELSE
    LET s7 == ChangeColumnUnique(table, s6.clonedTable, oldColumn, newColumn)
        s8 == ChangeColumnGenerated(table, s7.clonedTable, oldColumn, newColumn)
        s9 == ChangeColumnDefault(table, s8.clonedTable, oldColumn, newColumn,
                                  DefaultValueChanged(oldColumn, newColumn))
        s10 == ChangeColumnSpatial(table, s9.clonedTable, oldColumn, newColumn)
        s11 == ChangeColumnCollation(table, s10.clonedTable, oldColumn, newColumn)
        s12 == ChangeColumnGeneratedType(table, s11.clonedTable, oldColumn,
                                         newColumn)
        steps == <<s1, s2, s3, s9, s4, s5, s6, s7, s8, s10, s11, s12>> IN
    Plan("", FlatMap(steps, LAMBDA s : s.up), FlatMap(steps, LAMBDA s : s.down),
         early, s12.clonedTable)

\* changeColumn(tableOrName, oldTableColumnOrName, newColumn); the old
\* column is the cached table's own column object.
changeColumn(d, table, oldColumnName, newColumn) ==
    LET at == findColumnByName(table, oldColumnName) IN
    IF at = 0 THEN Thrown("ColumnNotFound", table)
    ELSE
    LET given == table.columns[at] IN
    IF MustRecreate(given, newColumn)
    THEN LET drop == dropColumn(d, table, given.name)
             dropped == ExecFrom(d, drop.up, 1, 0).db
             add == addColumn(dropped, drop.after, newColumn) IN
         [Plan("", drop.up \o add.up, drop.down \o add.down, table, add.after)
            EXCEPT !.midAt = Len(drop.up), !.mid = drop.after]
    ELSE
    LET renamed == given.name # newColumn.name
        \* `oldColumn.name = newColumn.name` (line 2724) edits the cached
        \* column in place; every later branch reads the new name from it.
        oldColumn == [given EXCEPT !.name = newColumn.name]
        early == [table EXCEPT !.columns[at].name = newColumn.name]
        s1 == IF renamed
              THEN ChangeColumnRename(d, table, table, given, newColumn)
              ELSE NoStep(table)
        s2 == ChangeColumnPrecision(table, s1.clonedTable, oldColumn, newColumn)
        s3 == ChangeColumnEnum(table, s2.clonedTable, oldColumn, newColumn)
        s4 == ChangeColumnNullable(table, s3.clonedTable, oldColumn, newColumn)
        s5 == ChangeColumnComment(table, s4.clonedTable, oldColumn, newColumn)
        s6 == ChangeColumnPrimary(table, s5.clonedTable, oldColumn, newColumn)
        unique == newColumn.isUnique # oldColumn.isUnique
        missing == unique /\ ~newColumn.isUnique
                   /\ FirstOver(s6.clonedTable.uniques, newColumn.name) = 0 IN
    IF missing THEN Thrown("TypeError", early)
    ELSE
    LET s7 == ChangeColumnUnique(table, s6.clonedTable, oldColumn, newColumn)
        s8 == ChangeColumnGenerated(table, s7.clonedTable, oldColumn, newColumn)
        s9 == ChangeColumnDefault(table, s8.clonedTable, oldColumn, newColumn,
                                  DefaultValueChanged(oldColumn, newColumn))
        s10 == ChangeColumnSpatial(table, s9.clonedTable, oldColumn, newColumn)
        s11 == ChangeColumnCollation(table, s10.clonedTable, oldColumn, newColumn)
        s12 == ChangeColumnGeneratedType(table, s11.clonedTable, oldColumn,
                                         newColumn)
        steps == <<s1, s2, s3, s4, s5, s6, s7, s8, s9, s10, s11, s12>> IN
    Plan("", FlatMap(steps, LAMBDA s : s.up), FlatMap(steps, LAMBDA s : s.down),
         early, s12.clonedTable)

\* renameColumn(tableOrName, oldTableColumnOrName, newTableColumnOrName)
\* with the new column given by name: a clone of the old one, renamed.
renameColumn(d, table, oldColumnName, newColumnName) ==
    LET at == findColumnByName(table, oldColumnName) IN
    IF at = 0 THEN Thrown("ColumnNotFound", table)
    ELSE changeColumn(d, table, oldColumnName,
                      [table.columns[at] EXCEPT !.name = newColumnName])

\* createPrimaryKey(tableOrName, columnNames, constraintName)
createPrimaryKey(d, table, columnNames, constraintName) ==
    LET clonedTable ==
            [table EXCEPT !.columns = [i \in 1..Len(@) |->
                IF Includes(columnNames, @[i].name)
                THEN [@[i] EXCEPT !.isPrimary = TRUE] ELSE @[i]]] IN
    IF primaryColumns(clonedTable) = <<>> THEN Thrown("TypeORMError", table)
    ELSE Plan("", <<createPrimaryKeySql(table, columnNames, constraintName)>>,
              <<dropPrimaryKeySql(clonedTable)>>, table, clonedTable)

\* updatePrimaryKeys(tableOrName, columns)
updatePrimaryKeys(d, table, columnNames) ==
    LET pk == primaryColumns(table)
        clonedTable ==
            [table EXCEPT !.columns = [i \in 1..Len(@) |->
                IF Includes(columnNames, @[i].name)
                THEN [@[i] EXCEPT !.isPrimary = TRUE] ELSE @[i]]]
        pkName == IF Len(pk) > 0 /\ pk[1].primaryKeyConstraintName # ""
                  THEN pk[1].primaryKeyConstraintName
                  ELSE primaryKeyName(clonedTable.name, columnNames) IN
    Plan("",
         (IF Len(pk) > 0
          THEN <<DropConstraintSql(table.name, PrimaryKeyNameOf(table.name, pk))>>
          ELSE <<>>)
         \o <<AddPrimaryKeySql(table.name, pkName, columnNames)>>,
         (IF Len(pk) > 0
          THEN <<AddPrimaryKeySql(table.name, PrimaryKeyNameOf(table.name, pk),
                                  columnNamesOf(pk))>>
          ELSE <<>>)
         \o <<DropConstraintSql(table.name, pkName)>>,
         table, clonedTable)

\* dropPrimaryKey(tableOrName, constraintName): after executeQueries the
\* primary columns of the table argument are unmarked in place.
dropPrimaryKey(d, table, constraintName) ==
    IF primaryColumns(table) = <<>> THEN Thrown("TypeORMError", table)
    ELSE InPlace(Plan("", <<dropPrimaryKeySql(table)>>,
              <<createPrimaryKeySql(table, columnNamesOf(primaryColumns(table)),
                                    constraintName)>>,
              table,
              [table EXCEPT !.columns = [i \in 1..Len(@) |->
                  [@[i] EXCEPT !.isPrimary = FALSE]]]))

\* The names of the members of a list of the cached table.
NamesOf(members) == {members[i].name : i \in 1..Len(members)}

\* The position of the first member with the given name, 0 if there is
\* none: members.find((m) => m.name === name).
FindByName(members, name) ==
    IF \E i \in 1..Len(members) : members[i].name = name
    THEN CHOOSE i \in 1..Len(members) :
            /\ members[i].name = name
            /\ \A j \in 1..(i - 1) : members[j].name # name
    ELSE 0

\* table.addUniqueConstraint / removeUniqueConstraint: the list changes and
\* the column of a single-column constraint is marked / unmarked.
MarkUnique(table, unique, isUnique) ==
    [table EXCEPT !.columns = [i \in 1..Len(@) |->
        IF Len(unique.columnNames) = 1 /\ @[i].name = unique.columnNames[1]
        THEN [@[i] EXCEPT !.isUnique = isUnique] ELSE @[i]]]

\* createUniqueConstraint(tableOrName, uniqueConstraint): the constraint
\* is named if it has no name, and after executeQueries it is added to the
\* table argument itself.
createUniqueConstraint(d, table, uniqueConstraint) ==
    LET unique == IF uniqueConstraint.name = ""
                  THEN [uniqueConstraint EXCEPT !.name =
                           uniqueConstraintName(table.name,
                                                uniqueConstraint.columnNames)]
                  ELSE uniqueConstraint IN
    InPlace(Plan("", <<createUniqueConstraintSql(table, unique)>>,
                 <<dropUniqueConstraintSql(table, unique)>>, table,
                 [MarkUnique(table, unique, TRUE)
                     EXCEPT !.uniques = Append(@, unique)]))

\* (variant: a missing constraint completes without a statement)
dropUniqueConstraintSilently(d, table, uniqueOrName) ==
    LET at == FindByName(table.uniques, uniqueOrName) IN
    IF at = 0 THEN Plan("", <<>>, <<>>, table, table)
    ELSE InPlace(Plan("", <<dropUniqueConstraintSql(table, table.uniques[at])>>,
                      <<createUniqueConstraintSql(table, table.uniques[at])>>,
                      table,
                      [MarkUnique(table, table.uniques[at], FALSE)
                          EXCEPT !.uniques = Remove(@, at)]))

\* dropUniqueConstraint(tableOrName, uniqueOrName) called with a name
dropUniqueConstraint(d, table, uniqueOrName) ==
    LET at == FindByName(table.uniques, uniqueOrName) IN
    IF at = 0 THEN Thrown("TypeORMError", table)
    ELSE InPlace(Plan("", <<dropUniqueConstraintSql(table, table.uniques[at])>>,
                      <<createUniqueConstraintSql(table, table.uniques[at])>>,
                      table,
                      [MarkUnique(table, table.uniques[at], FALSE)
                          EXCEPT !.uniques = Remove(@, at)]))

\* createCheckConstraint(tableOrName, checkConstraint)
createCheckConstraint(d, table, checkConstraint) ==
    LET check == IF checkConstraint.name = ""
                 THEN [checkConstraint EXCEPT !.name =
                          checkConstraintName(table.name,
                                              checkConstraint.expression)]
                 ELSE checkConstraint IN
    InPlace(Plan("", <<createCheckConstraintSql(table, check)>>,
                 <<dropCheckConstraintSql(table, check)>>, table,
                 [table EXCEPT !.checks = Append(@, check)]))

\* dropCheckConstraint(tableOrName, checkOrName) called with a name
dropCheckConstraint(d, table, checkOrName) ==
    LET at == FindByName(table.checks, checkOrName) IN
    IF at = 0 THEN Thrown("TypeORMError", table)
    ELSE InPlace(Plan("", <<dropCheckConstraintSql(table, table.checks[at])>>,
                      <<createCheckConstraintSql(table, table.checks[at])>>,
                      table, [table EXCEPT !.checks = Remove(@, at)]))

\* createExclusionConstraint(tableOrName, exclusionConstraint)
createExclusionConstraint(d, table, exclusionConstraint) ==
    LET exclusion == IF exclusionConstraint.name = ""
                     THEN [exclusionConstraint EXCEPT !.name =
                              exclusionConstraintName(
                                  table.name, exclusionConstraint.expression)]
                     ELSE exclusionConstraint IN
    InPlace(Plan("", <<createExclusionConstraintSql(table, exclusion)>>,
                 <<dropExclusionConstraintSql(table, exclusion)>>, table,
                 [table EXCEPT !.exclusions = Append(@, exclusion)]))

\* dropExclusionConstraint(tableOrName, exclusionOrName) called with a name
dropExclusionConstraint(d, table, exclusionOrName) ==
    LET at == FindByName(table.exclusions, exclusionOrName) IN
    IF at = 0 THEN Thrown("TypeORMError", table)
    ELSE InPlace(Plan("",
                      <<dropExclusionConstraintSql(table, table.exclusions[at])>>,
                      <<createExclusionConstraintSql(table, table.exclusions[at])>>,
                      table, [table EXCEPT !.exclusions = Remove(@, at)]))

\* createForeignKey(tableOrName, foreignKey)
createForeignKey(d, table, foreignKey) ==
    LET named == IF foreignKey.name = ""
                 THEN [foreignKey EXCEPT !.name =
                          foreignKeyName(table.name, foreignKey.columnNames)]
                 ELSE foreignKey IN
    InPlace(Plan("", <<createForeignKeySql(table, named)>>,
                 <<dropForeignKeySql(table, named)>>, table,
                 [table EXCEPT !.foreignKeys = Append(@, named)]))

\* dropForeignKey(tableOrName, foreignKeyOrName) called with a name (a key
\* found by its name has one, so the naming branch does nothing)
dropForeignKey(d, table, foreignKeyOrName) ==
    LET at == FindByName(table.foreignKeys, foreignKeyOrName) IN
    IF at = 0 THEN Thrown("TypeORMError", table)
    ELSE InPlace(Plan("", <<dropForeignKeySql(table, table.foreignKeys[at])>>,
                      <<createForeignKeySql(table, table.foreignKeys[at])>>,
                      table, [table EXCEPT !.foreignKeys = Remove(@, at)]))

\* createIndex(tableOrName, index)
createIndex(d, table, index) ==
    LET named == IF index.name = ""
                 THEN [index EXCEPT !.name =
                          indexName(table.name, index.columnNames,
                                    index.where)]
                 ELSE index IN
    InPlace(Plan("", <<createIndexSql(table, named)>>,
                 <<dropIndexSql(table, named)>>, table,
                 [table EXCEPT !.indices = Append(@, named)]))

\* dropIndex(tableOrName, indexOrName) called with a name
dropIndex(d, table, indexOrName) ==
    LET at == FindByName(table.indices, indexOrName) IN
    IF at = 0 THEN Thrown("TypeORMError", table)
    ELSE InPlace(Plan("", <<dropIndexSql(table, table.indices[at])>>,
                      <<createIndexSql(table, table.indices[at])>>,
                      table, [table EXCEPT !.indices = Remove(@, at)]))

\* ------------------------------------------------------------------------
\* Loaded states: the tables the operations are called on
\* ------------------------------------------------------------------------
BaseTable ==
    Table("post",
          <<[TableColumn("a", "int") EXCEPT !.isPrimary = TRUE],
            [TableColumn("b", "enum") EXCEPT !.enum = <<"x", "y">>],
            TableColumn("c", "varchar")>>)

Features ==
    {"pkName", "pkComposite", "noPk", "serial", "enumName", "enumDefault",
     "unique", "uniqueOrNamed", "uniqueMulti", "index", "indexNamed",
     "indexMulti",
     "foreignKey", "foreignKeyNamed", "check", "exclusion", "comment",
     "nullable", "default"}

SetColumnAt(table, name, f(_)) ==
    [table EXCEPT !.columns =
        [i \in 1..Len(@) |-> IF @[i].name = name THEN f(@[i]) ELSE @[i]]]

\* The table with the features of fs, in the form loadTables gives it:
\* every constraint carries its name, a column is unique exactly if a
\* single-column unique constraint covers it, and primaryKeyConstraintName
\* and enumName are set only when the name in the database is not the
\* default one.
WithColumns(fs) ==
    LET t1 == IF "noPk" \in fs
              THEN SetColumnAt(BaseTable, "a", LAMBDA c : [c EXCEPT !.isPrimary = FALSE])
              ELSE BaseTable
        t2 == IF "pkComposite" \in fs /\ "noPk" \notin fs
              THEN SetColumnAt(t1, "c", LAMBDA c : [c EXCEPT !.isPrimary = TRUE])
              ELSE t1
        t3 == IF "pkName" \in fs
              THEN [t2 EXCEPT !.columns = [i \in 1..Len(@) |->
                       IF @[i].isPrimary
                       THEN [@[i] EXCEPT !.primaryKeyConstraintName = "pk_custom"]
                       ELSE @[i]]]
              ELSE t2
        t4 == IF "serial" \in fs
              THEN SetColumnAt(t3, "a", LAMBDA c :
                      [c EXCEPT !.isGenerated = TRUE,
                                !.generationStrategy = "increment"])
              ELSE t3
        t5 == IF "enumName" \in fs
              THEN SetColumnAt(t4, "b", LAMBDA c : [c EXCEPT !.enumName = "mood"])
              ELSE t4
        t6 == IF "enumDefault" \in fs
              THEN SetColumnAt(t5, "b", LAMBDA c : [c EXCEPT !.default = "'x'"])
              ELSE t5
        t7 == IF "unique" \in fs
              THEN SetColumnAt(t6, "c", LAMBDA c : [c EXCEPT !.isUnique = TRUE])
              ELSE t6
        t8 == IF "comment" \in fs
              THEN SetColumnAt(t7, "c", LAMBDA c : [c EXCEPT !.comment = "note"])
              ELSE t7
        t9 == IF "nullable" \in fs /\ "pkComposite" \notin fs
              THEN SetColumnAt(t8, "c", LAMBDA c : [c EXCEPT !.isNullable = TRUE])
              ELSE t8 IN
    IF "default" \in fs
    THEN SetColumnAt(t9, "c", LAMBDA c : [c EXCEPT !.default = "'n'"])
    ELSE t9

LoadedTable(fs) ==
    [WithColumns(fs) EXCEPT
       !.uniques =
          (IF "unique" \in fs
           THEN <<TableUnique(uniqueConstraintName("post", <<"c">>), <<"c">>)>>
           ELSE <<>>)
          \o (IF "uniqueOrNamed" \in fs
              THEN <<TableUnique("uq_custom", <<"b", "c">>)>> ELSE <<>>)
          \o (IF "uniqueMulti" \in fs
              THEN <<TableUnique(uniqueConstraintName("post", <<"c", "a">>),
                                 <<"c", "a">>)>>
              ELSE <<>>),
       !.indices =
          (IF "index" \in fs
           THEN <<TableIndex(indexName("post", <<"c">>, ""), <<"c">>, FALSE, "")>>
           ELSE <<>>)
          \o (IF "indexNamed" \in fs
              THEN <<TableIndex("idx_custom", <<"b">>, TRUE, "")>> ELSE <<>>)
          \o (IF "indexMulti" \in fs
              THEN <<TableIndex(indexName("post", <<"c", "a">>, ""), <<"c", "a">>,
                                FALSE, "")>>
              ELSE <<>>),
       !.foreignKeys =
          (IF "foreignKey" \in fs
           THEN <<TableForeignKey(foreignKeyName("post", <<"c">>), <<"c">>,
                                  "author", <<"id">>)>>
           ELSE <<>>)
          \o (IF "foreignKeyNamed" \in fs
              THEN <<TableForeignKey("fk_custom", <<"a">>, "author", <<"id">>)>>
              ELSE <<>>),
       !.checks =
          IF "check" \in fs
          THEN <<TableCheck(checkConstraintName("post", "c <> ''"), "c <> ''",
                            <<"c">>)>>
          ELSE <<>>,
       !.exclusions =
          IF "exclusion" \in fs
          THEN <<TableExclusion(
                    exclusionConstraintName("post", "USING gist (c WITH =)"),
                    "USING gist (c WITH =)")>>
          ELSE <<>>]

\* The subsets of S with at most k members.
RECURSIVE SubsetsUpTo(_, _)
SubsetsUpTo(S, k) ==
    IF k = 0 THEN {{}}
    ELSE LET smaller == SubsetsUpTo(S, k - 1) IN
         smaller \cup {s \cup {x} : s \in smaller, x \in S}

LoadedTables == {LoadedTable(fs) : fs \in SubsetsUpTo(Features, MaxFeatures)}

\* ------------------------------------------------------------------------
\* Calls of the schema operations
\* ------------------------------------------------------------------------
NoOp ==
    [op |-> "none", target |-> "", newName |-> "", oldColumn |-> NoColumn,
     newColumn |-> NoColumn, columnNames |-> <<>>, flags |-> <<>>,
     up |-> <<>>, down |-> <<>>, error |-> "", ok |-> TRUE, executed |-> 0,
     dbBefore |-> EmptyDb, cacheBefore |-> NoTable, tableAfter |-> NoTable,
     held |-> NoTable]

Args(target, newName, oldColumn, newColumn, columnNames, flags) ==
    [target |-> target, newName |-> newName, oldColumn |-> oldColumn,
     newColumn |-> newColumn, columnNames |-> columnNames, flags |-> flags]

\* Where executeQueries can fail for a reason the schema does not show:
\* nowhere (0), or at the last statement of the up list.
FailPoints(plan) == IF plan.up = <<>> THEN {0} ELSE {0, Len(plan.up)}

\* One call of a schema operation: the method builds its lists (plan),
\* executeQueries runs the up list statement by statement, and only when
\* all of it succeeded does the method go on to update the cache.  onCache
\* tells whether the table argument is the cached object.
Call(opName, args, plan, failAt, onCache) ==
    \E r \in {ExecFrom(db, plan.up, 1, failAt)} :
    \E ok \in {plan.error = "" /\ r.ok} :
    \E tableAfter \in
          {IF ok THEN plan.after
           ELSE IF plan.midAt > 0 /\ r.executed >= plan.midAt THEN plan.mid
           ELSE plan.early} :
    /\ db' = r.db
    /\ cache' = IF onCache THEN tableAfter ELSE cache
    /\ lastOp' =
          [op |-> opName, target |-> args.target, newName |-> args.newName,
           oldColumn |-> args.oldColumn, newColumn |-> args.newColumn,
           columnNames |-> args.columnNames, flags |-> args.flags,
           up |-> plan.up, down |-> plan.down,
           error |-> IF plan.error # "" THEN plan.error
                     ELSE IF r.ok THEN "" ELSE "QueryFailedError",
           ok |-> ok, executed |-> r.executed,
           dbBefore |-> db, cacheBefore |-> cache, tableAfter |-> tableAfter,
           held |-> IF ok THEN plan.held ELSE plan.early]
    /\ UNCHANGED <<txVars, connVars, queryVars, moreVars>>

\* No operation has been called yet.
Idle == lastOp.op = "none"

RenameTable ==
    /\ Idle
    /\ cache # NoTable
    /\ \E newTableName \in {"item"} :
          \E plan \in {renameTable(db, cache, newTableName)} :
          \E failAt \in FailPoints(plan) :
             Call("renameTable", Args(cache.name, newTableName, NoColumn,
                                      NoColumn, <<>>, <<>>),
                  plan, failAt, TRUE)

\* The tables createTable is given when none is loaded: the loaded shapes,
\* and each of them with a further enum column e of type name "mood" (the
\* name column b has when it carries an enumName).
TablesToCreate ==
    LoadedTables \cup
    {[table EXCEPT !.columns =
         Append(@, [TableColumn("e", "simple-enum")
                       EXCEPT !.enum = <<"x", "y">>, !.enumName = "mood"])] :
        table \in LoadedTables}

CreateTable ==
    /\ Idle
    /\ \E table \in (IF cache = NoTable THEN TablesToCreate ELSE {cache}) :
       \E ifNotExist, createForeignKeys, createIndices \in BOOLEAN :
          \E plan \in {createTable(db, table, ifNotExist, createForeignKeys,
                                  createIndices)} :
          \E failAt \in FailPoints(plan) :
             Call("createTable",
                  Args(table.name, "", NoColumn, NoColumn, <<>>,
                       <<ifNotExist, createForeignKeys, createIndices>>),
                  plan, failAt, cache # NoTable)

DropTable ==
    /\ Idle
    /\ cache # NoTable
    /\ \E ifExist, dropForeignKeys, dropIndices \in BOOLEAN :
          \E plan \in {dropTable(db, cache, ifExist, dropForeignKeys, dropIndices)} :
          \E failAt \in FailPoints(plan) :
             Call("dropTable",
                  Args(cache.name, "", NoColumn, NoColumn, <<>>,
                       <<ifExist, dropForeignKeys, dropIndices>>),
                  plan, failAt, TRUE)

\* The columns addColumn is called with.
NewColumns ==
    LET d == TableColumn("d", "int") IN
    {d,
     [d EXCEPT !.isPrimary = TRUE],
     [d EXCEPT !.isUnique = TRUE],
     [d EXCEPT !.type = "enum", !.enum = <<"x", "y">>],
     [d EXCEPT !.type = "enum", !.enum = <<"x", "y">>, !.enumName = "mood"],
     [d EXCEPT !.isGenerated = TRUE, !.generationStrategy = "increment"],
     [d EXCEPT !.type = "uuid", !.isGenerated = TRUE, !.generationStrategy = "uuid"],
     [d EXCEPT !.comment = "note"],
     [d EXCEPT !.generatedType = "STORED", !.asExpression = "a * 2"],
     [d EXCEPT !.isNullable = TRUE, !.default = "0"],
     [d EXCEPT !.default = "''"],
     [d EXCEPT !.name = "c"]}

\* The column names the operations are called with: the columns of the
\* base table and one no table has.
ColumnNames == {"a", "b", "c", "zz"}

\* The ways changeColumn's new column differs from the old one.
Edits ==
    {"name", "type", "precision", "enum", "enumName", "isNullable", "comment",
     "isPrimary", "isUnique", "isGenerated", "default", "noDefault",
     "collation", "generatedType"}

Edited(column, es) ==
    [column EXCEPT
       !.name = IF "name" \in es THEN "d" ELSE @,
       !.type = IF "type" \in es THEN "text" ELSE @,
       !.precision = IF "precision" \in es THEN "10" ELSE @,
       !.enum = IF "enum" \in es /\ IsEnum(column) THEN <<"x", "y", "z">> ELSE @,
       !.enumName = IF "enumName" \in es /\ IsEnum(column)
                    THEN (IF @ = "" THEN "mood" ELSE "") ELSE @,
       !.isNullable = IF "isNullable" \in es THEN ~@ ELSE @,
       !.comment = IF "comment" \in es THEN (IF @ = "" THEN "note" ELSE "") ELSE @,
       !.isPrimary = IF "isPrimary" \in es THEN ~@ ELSE @,
       !.isUnique = IF "isUnique" \in es THEN ~@ ELSE @,
       !.isGenerated = IF "isGenerated" \in es THEN ~@ ELSE @,
       !.generationStrategy = IF "isGenerated" \in es THEN "increment" ELSE @,
       !.default = IF "noDefault" \in es THEN ""
                   ELSE IF "default" \in es THEN "'y'" ELSE @,
       !.collation = IF "collation" \in es THEN "C" ELSE @,
       !.generatedType = IF "generatedType" \in es THEN "VIRTUAL" ELSE @]

\* Name, nullability and default changed by one call.
CombinedEdits ==
    {{"name", "isNullable", "default"}, {"name", "isNullable", "noDefault"}}

AddColumn ==
    /\ Idle
    /\ cache # NoTable
    /\ \E column \in NewColumns :
          \E plan \in {addColumn(db, cache, column)} :
          \E failAt \in FailPoints(plan) :
             Call("addColumn", Args(cache.name, "", NoColumn, column, <<>>, <<>>),
                  plan, failAt, TRUE)

DropColumn ==
    /\ Idle
    /\ cache # NoTable
    /\ \E columnName \in ColumnNames :
          \E plan \in {dropColumn(db, cache, columnName)} :
          \E failAt \in FailPoints(plan) :
             Call("dropColumn",
                  Args(cache.name, "", TableColumn(columnName, ""), NoColumn,
                       <<>>, <<>>),
                  plan, failAt, TRUE)

RenameColumn ==
    /\ Idle
    /\ cache # NoTable
    /\ \E oldColumnName \in ColumnNames, newColumnName \in {"d", "c"} :
          \E plan \in {renameColumn(db, cache, oldColumnName, newColumnName)},
             at \in {findColumnByName(cache, oldColumnName)} :
          \E failAt \in FailPoints(plan) :
             Call("renameColumn",
                  Args(cache.name, "",
                       IF at = 0 THEN TableColumn(oldColumnName, "")
                       ELSE cache.columns[at],
                       TableColumn(newColumnName, ""), <<>>, <<>>),
                  plan, failAt, TRUE)

ChangeColumn ==
    /\ Idle
    /\ cache # NoTable
    /\ \E at \in 0..Len(cache.columns) :
          \E es \in SubsetsUpTo(Edits, IF at = 0 THEN 1 ELSE MaxEdits)
                     \cup (IF at = 0 THEN {} ELSE CombinedEdits) :
          \E oldColumn \in {IF at = 0 THEN TableColumn("zz", "varchar")
                            ELSE cache.columns[at]} :
          \E newColumn \in {Edited(oldColumn, es)} :
          \E plan \in {changeColumn(db, cache, oldColumn.name, newColumn)} :
          \E failAt \in FailPoints(plan) :
             Call("changeColumn",
                  Args(cache.name, "", oldColumn, newColumn, <<>>, <<>>),
                  plan, failAt, TRUE)

PrimaryKeyColumns == {<<"a">>, <<"c">>, <<"a", "c">>}

ConstraintNamesGiven == {"", "pk_given"}

CreatePrimaryKey ==
    /\ Idle
    /\ cache # NoTable
    /\ \E columnNames \in PrimaryKeyColumns, constraintName \in ConstraintNamesGiven :
          \E plan \in {createPrimaryKey(db, cache, columnNames, constraintName)} :
          \E failAt \in FailPoints(plan) :
             Call("createPrimaryKey",
                  Args(cache.name, constraintName, NoColumn, NoColumn,
                       columnNames, <<>>),
                  plan, failAt, TRUE)

UpdatePrimaryKeys ==
    /\ Idle
    /\ cache # NoTable
    /\ \E columnNames \in PrimaryKeyColumns :
          \E plan \in {updatePrimaryKeys(db, cache, columnNames)} :
          \E failAt \in FailPoints(plan) :
             Call("updatePrimaryKeys",
                  Args(cache.name, "", NoColumn, NoColumn, columnNames, <<>>),
                  plan, failAt, TRUE)

DropPrimaryKey ==
    /\ Idle
    /\ cache # NoTable
    /\ \E constraintName \in ConstraintNamesGiven :
          \E plan \in {dropPrimaryKey(db, cache, constraintName)} :
          \E failAt \in FailPoints(plan) :
             Call("dropPrimaryKey",
                  Args(cache.name, constraintName, NoColumn, NoColumn, <<>>, <<>>),
                  plan, failAt, TRUE)

\* The name no column, constraint or index of a loaded table has.
Missing == "missing"

CreateUniqueConstraint ==
    /\ Idle
    /\ cache # NoTable
    /\ \E uniqueConstraint \in {TableUnique("", <<"b">>),
                              TableUnique("uq_new", <<"a", "b">>)} :
          \E plan \in {createUniqueConstraint(db, cache, uniqueConstraint)} :
          \E failAt \in FailPoints(plan) :
             Call("createUniqueConstraint",
                  Args(cache.name, uniqueConstraint.name, NoColumn, NoColumn, uniqueConstraint.columnNames, <<>>),
                  plan, failAt, TRUE)

DropUniqueConstraint ==
    /\ Idle
    /\ cache # NoTable
    /\ \E uniqueOrName \in NamesOf(cache.uniques) \cup {Missing} :
          \E plan \in {dropUniqueConstraint(db, cache, uniqueOrName)} :
          \E failAt \in FailPoints(plan) :
             Call("dropUniqueConstraint",
                  Args(cache.name, uniqueOrName, NoColumn, NoColumn, <<>>, <<>>),
                  plan, failAt, TRUE)

CreateCheckConstraint ==
    /\ Idle
    /\ cache # NoTable
    /\ \E checkConstraint \in {TableCheck("", "a > 0", <<"a">>),
                             TableCheck("chk_new", "a > 0", <<"a">>)} :
          \E plan \in {createCheckConstraint(db, cache, checkConstraint)} :
          \E failAt \in FailPoints(plan) :
             Call("createCheckConstraint",
                  Args(cache.name, checkConstraint.name, NoColumn, NoColumn, checkConstraint.columnNames, <<>>),
                  plan, failAt, TRUE)

DropCheckConstraint ==
    /\ Idle
    /\ cache # NoTable
    /\ \E checkOrName \in NamesOf(cache.checks) \cup {Missing} :
          \E plan \in {dropCheckConstraint(db, cache, checkOrName)} :
          \E failAt \in FailPoints(plan) :
             Call("dropCheckConstraint",
                  Args(cache.name, checkOrName, NoColumn, NoColumn, <<>>, <<>>),
                  plan, failAt, TRUE)

CreateExclusionConstraint ==
    /\ Idle
    /\ cache # NoTable
    /\ \E exclusionConstraint \in {TableExclusion("", "USING gist (a WITH =)"),
                                 TableExclusion("xcl_new", "USING gist (a WITH =)")} :
          \E plan \in {createExclusionConstraint(db, cache, exclusionConstraint)} :
          \E failAt \in FailPoints(plan) :
             Call("createExclusionConstraint",
                  Args(cache.name, exclusionConstraint.name, NoColumn, NoColumn, <<>>, <<>>),
                  plan, failAt, TRUE)

DropExclusionConstraint ==
    /\ Idle
    /\ cache # NoTable
    /\ \E exclusionOrName \in NamesOf(cache.exclusions) \cup {Missing} :
          \E plan \in {dropExclusionConstraint(db, cache, exclusionOrName)} :
          \E failAt \in FailPoints(plan) :
             Call("dropExclusionConstraint",
                  Args(cache.name, exclusionOrName, NoColumn, NoColumn, <<>>, <<>>),
                  plan, failAt, TRUE)

CreateForeignKey ==
    /\ Idle
    /\ cache # NoTable
    /\ \E foreignKey \in {TableForeignKey("", <<"b">>, "author", <<"id">>),
                        TableForeignKey("fk_new", <<"b">>, "author", <<"id">>)} :
          \E plan \in {createForeignKey(db, cache, foreignKey)} :
          \E failAt \in FailPoints(plan) :
             Call("createForeignKey",
                  Args(cache.name, foreignKey.name, NoColumn, NoColumn, foreignKey.columnNames, <<>>),
                  plan, failAt, TRUE)

DropForeignKey ==
    /\ Idle
    /\ cache # NoTable
    /\ \E foreignKeyOrName \in NamesOf(cache.foreignKeys) \cup {Missing} :
          \E plan \in {dropForeignKey(db, cache, foreignKeyOrName)} :
          \E failAt \in FailPoints(plan) :
             Call("dropForeignKey",
                  Args(cache.name, foreignKeyOrName, NoColumn, NoColumn, <<>>, <<>>),
                  plan, failAt, TRUE)

CreateIndex ==
    /\ Idle
    /\ cache # NoTable
    /\ \E index \in {TableIndex("", <<"a">>, FALSE, ""),
                   TableIndex("idx_new", <<"a", "c">>, TRUE, "")} :
          \E plan \in {createIndex(db, cache, index)} :
          \E failAt \in FailPoints(plan) :
             Call("createIndex",
                  Args(cache.name, index.name, NoColumn, NoColumn, index.columnNames, <<>>),
                  plan, failAt, TRUE)

DropIndex ==
    /\ Idle
    /\ cache # NoTable
    /\ \E indexOrName \in NamesOf(cache.indices) \cup {Missing} :
          \E plan \in {dropIndex(db, cache, indexOrName)} :
          \E failAt \in FailPoints(plan) :
             Call("dropIndex",
                  Args(cache.name, indexOrName, NoColumn, NoColumn, <<>>, <<>>),
                  plan, failAt, TRUE)

\* ------------------------------------------------------------------------
\* Bulk helpers: create...s / drop...s over a list of constraints
\* ------------------------------------------------------------------------
\* The helpers that loop with `for ... await`.
SerialHelpers ==
    {"createUniqueConstraints", "dropUniqueConstraints", "createForeignKeys",
     "dropForeignKeys", "createIndices", "dropIndices"}

\* The helpers that map the list to promises and await Promise.all.
ParallelHelpers ==
    {"createCheckConstraints", "dropCheckConstraints",
     "createExclusionConstraints", "dropExclusionConstraints"}

NoBulk ==
    [method |-> "", statements |-> <<>>, state |-> <<>>, log |-> <<>>]

\* The statement the i-th call of the helper hands to executeQueries.
BulkSql(method, i) ==
    LET n == <<"1", "2", "3", "4", "5">>[i] IN
    CASE method = "createUniqueConstraints" ->
            createUniqueConstraintSql(BaseTable, TableUnique("uq_" \o n, <<"b">>))
      [] method = "dropUniqueConstraints" ->
            dropUniqueConstraintSql(BaseTable, TableUnique("uq_" \o n, <<"b">>))
      [] method = "createCheckConstraints" ->
            createCheckConstraintSql(BaseTable,
                                     TableCheck("chk_" \o n, "a > " \o n, <<"a">>))
      [] method = "dropCheckConstraints" ->
            dropCheckConstraintSql(BaseTable,
                                   TableCheck("chk_" \o n, "a > " \o n, <<"a">>))
      [] method = "createExclusionConstraints" ->
            createExclusionConstraintSql(BaseTable,
                TableExclusion("xcl_" \o n, "USING gist (a WITH =)"))
      [] method = "dropExclusionConstraints" ->
            dropExclusionConstraintSql(BaseTable,
                TableExclusion("xcl_" \o n, "USING gist (a WITH =)"))
      [] method = "createForeignKeys" ->
            createForeignKeySql(BaseTable,
                TableForeignKey("fk_" \o n, <<"b">>, "author", <<"id">>))
      [] method = "dropForeignKeys" ->
            dropForeignKeySql(BaseTable,
                TableForeignKey("fk_" \o n, <<"b">>, "author", <<"id">>))
      [] method = "createIndices" ->
            createIndexSql(BaseTable, TableIndex("idx_" \o n, <<"a">>, FALSE, ""))
      [] OTHER ->
            dropIndexSql(BaseTable, TableIndex("idx_" \o n, <<"a">>, FALSE, ""))

\* The positions of the per-constraint calls in the given state.
BulkIn(state) == {i \in 1..Len(bulk.state) : bulk.state[i] = state}

\* The helper is called with a list of n constraints and runs up to its
\* own await.  A serial helper has called the method for the first
\* constraint, a parallel one for every constraint of the list; each such
\* call is suspended at the first await of query(), before its statement
\* is handed to the connection.
BulkCall ==
    /\ bulk = NoBulk
    /\ \E method \in SerialHelpers \cup ParallelHelpers, n \in 0..MaxBulk :
          bulk' = [method |-> method,
                   statements |-> [i \in 1..n |-> BulkSql(method, i)],
                   state |-> [i \in 1..n |->
                                 IF method \in ParallelHelpers \/ i = 1
                                 THEN "called" ELSE "pending"],
                   log |-> <<>>]
    /\ UNCHANGED <<txVars, connVars, schemaVars, queryVars, driverVars, loadVars, ddlVars, laterVars>>

\* The suspended call that was suspended first resumes and hands its
\* statement to the connection: databaseConnection.query(query, parameters).
BulkSubmit ==
    /\ BulkIn("called") # {}
    /\ \E i \in BulkIn("called") :
          /\ \A j \in BulkIn("called") : i <= j
          /\ bulk' = [bulk EXCEPT
                        !.state[i] = "sent",
                        !.log = Append(@, [item |-> i,
                                           statement |-> bulk.statements[i],
                                           inFlight |-> BulkIn("sent")])]
    /\ UNCHANGED <<txVars, connVars, schemaVars, queryVars, driverVars, loadVars, ddlVars, laterVars>>

\* The connection answers its oldest statement, once no suspended call is
\* left to resume.  In a serial helper a successful call is followed by
\* the call for the next constraint; a failed one ends the loop.
BulkSettle ==
    /\ BulkIn("called") = {}
    /\ BulkIn("sent") # {}
    /\ \E i \in BulkIn("sent"), ok \in BOOLEAN :
          /\ \A j \in BulkIn("sent") : i <= j
          /\ bulk' = [bulk EXCEPT
                        !.state = [j \in 1..Len(@) |->
                            IF j = i THEN IF ok THEN "returned" ELSE "failed"
                            ELSE IF /\ j = i + 1
                                    /\ ok
                                    /\ bulk.method \in SerialHelpers
                            THEN "called"
                            ELSE @[j]]]
    /\ UNCHANGED <<txVars, connVars, schemaVars, queryVars, driverVars, loadVars, ddlVars, laterVars>>

\* ------------------------------------------------------------------------
\* Driver: normalisation of declared columns and findChangedColumns
\* ------------------------------------------------------------------------
\* A text is a sequence of one-character strings, so that quoting and case
\* conversion act on it character by character as they do in the code.
\* A value that may be undefined is a record with a `defined` flag.
Undefined == [defined |-> FALSE, text |-> <<>>]

Text(chars) == [defined |-> TRUE, text |-> chars]

UpperCaseLetters ==
    <<"A", "B", "C", "D", "E", "F", "G", "H", "I", "J", "K", "L", "M",
      "N", "O", "P", "Q", "R", "S", "T", "U", "V", "W", "X", "Y", "Z">>

LowerCaseLetters ==
    <<"a", "b", "c", "d", "e", "f", "g", "h", "i", "j", "k", "l", "m",
      "n", "o", "p", "q", "r", "s", "t", "u", "v", "w", "x", "y", "z">>

\* One character moved from the alphabet `from` to the alphabet `to`.
Recase(char, from, to) ==
    IF \E k \in 1..Len(from) : from[k] = char
    THEN to[CHOOSE k \in 1..Len(from) : from[k] = char]
    ELSE char

\* String.prototype.toUpperCase / toLowerCase
toUpperCase(chars) ==
    [i \in 1..Len(chars) |-> Recase(chars[i], LowerCaseLetters, UpperCaseLetters)]

toLowerCase(chars) ==
    [i \in 1..Len(chars) |-> Recase(chars[i], UpperCaseLetters, LowerCaseLetters)]

\* `${n}` for an integer n
RECURSIVE DecimalText(_)
DecimalText(n) ==
    IF n < 0 THEN <<"-">> \o DecimalText(0 - n)
    ELSE IF n < 10
    THEN <<(<<"0", "1", "2", "3", "4", "5", "6", "7", "8", "9">>)[n + 1]>>
    ELSE DecimalText(n \div 10) \o DecimalText(n % 10)

\* The value of ColumnMetadata.default: its JavaScript type and, per type,
\* the number, the boolean, the string or the string the function returns.
DefaultValue(kind, number, boolean, chars) ==
    [kind |-> kind, number |-> number, boolean |-> boolean, text |-> chars]

NoDefault == DefaultValue("undefined", 0, FALSE, <<>>)

\* A ColumnMetadata with every option at its default.  `type` is a type
\* name, or "Number", "String", "Date", "Boolean", "Buffer" for the
\* constructors; `uniques` is entityMetadata.uniques as lists of column
\* names; precision and scale are 0 when not set.
ColumnMetadata(databaseName, type) ==
    [databaseName |-> databaseName, type |-> type, length |-> <<>>,
     precision |-> 0, scale |-> 0, isGenerated |-> FALSE,
     default |-> NoDefault, isPrimary |-> FALSE, isNullable |-> FALSE,
     asExpression |-> "", generatedType |-> "", enum |-> <<>>,
     uniques |-> <<>>]

\* normalizeType (lines 625-659)
normalizeType(column) ==
    CASE column.type \in {"Number", "integer"} -> "int"
      [] column.type = "String" -> "nvarchar"
      [] column.type = "Date" -> "datetime"
      [] column.type = "Boolean" -> "bit"
      [] column.type = "Buffer" -> "binary"
      [] column.type = "uuid" -> "uniqueidentifier"
      [] column.type \in {"simple-array", "simple-json"} -> "ntext"
      [] column.type = "simple-enum" -> "nvarchar"
      [] column.type = "dec" -> "decimal"
      [] column.type = "double precision" -> "float"
      [] column.type = "rowversion" -> "timestamp"
      [] OTHER -> column.type

\* A variant of normalizeDefault that puts what a function returns in
\* parentheses, as the database shows a default.
normalizeDefaultInParentheses(columnMetadata) ==
    LET defaultValue == columnMetadata.default IN
    CASE defaultValue.kind = "number" -> Text(DecimalText(defaultValue.number))
      [] defaultValue.kind = "boolean" ->
            Text(IF defaultValue.boolean THEN <<"1">> ELSE <<"0">>)
      [] defaultValue.kind = "function" ->
            Text(<<"(">> \o defaultValue.text \o <<")">>)
      [] defaultValue.kind = "string" ->
            Text(<<"'">> \o defaultValue.text \o <<"'">>)
      [] defaultValue.kind \in {"undefined", "null"} -> Undefined
      [] OTHER -> Text(defaultValue.text)

\* normalizeDefault (lines 664-692)
normalizeDefault(columnMetadata) ==
    LET defaultValue == columnMetadata.default IN
    CASE defaultValue.kind = "number" -> Text(DecimalText(defaultValue.number))
      [] defaultValue.kind = "boolean" ->
            Text(IF defaultValue.boolean THEN <<"1">> ELSE <<"0">>)
      [] defaultValue.kind = "function" ->
            IF toUpperCase(defaultValue.text)
                 = <<"C", "U", "R", "R", "E", "N", "T", "_",
                     "T", "I", "M", "E", "S", "T", "A", "M", "P">>
            THEN Text(<<"g", "e", "t", "d", "a", "t", "e", "(", ")">>)
            ELSE Text(defaultValue.text)
      [] defaultValue.kind = "string" ->
            Text(<<"'">> \o defaultValue.text \o <<"'">>)
      [] defaultValue.kind \in {"undefined", "null"} -> Undefined
      [] OTHER -> Text(defaultValue.text)

\* normalizeIsUnique (lines 697-701)
normalizeIsUnique(column) ==
    \E i \in 1..Len(column.uniques) :
        /\ Len(column.uniques[i]) = 1
        /\ column.uniques[i][1] = column.databaseName

\* getColumnLength (lines 706-717)
getColumnLength(column) ==
    IF column.length # <<>> THEN column.length
    ELSE IF column.type \in {"varchar", "nvarchar", "String"}
    THEN <<"2", "5", "5">>
    ELSE <<>>

\* compareColumnType (lines 1083-1092)
compareColumnType(tableColumn, columnMetadata) ==
    IF columnMetadata.asExpression # "" THEN FALSE
    ELSE tableColumn.type # normalizeType(columnMetadata)

\* A variant of compareColumnLength that takes the declared length as it is
\* written, without the default length of the type.
compareColumnLengthAsDeclared(tableColumn, columnMetadata) ==
    IF columnMetadata.asExpression # "" THEN FALSE
    ELSE toUpperCase(tableColumn.length) # toUpperCase(columnMetadata.length)

\* compareColumnLength (lines 1094-1106)
compareColumnLength(tableColumn, columnMetadata) ==
    IF columnMetadata.asExpression # "" THEN FALSE
    ELSE toUpperCase(tableColumn.length)
           # toUpperCase(getColumnLength(columnMetadata))

\* lowerDefaultValueIfNecessary (lines 1108-1119): the text is split at the
\* quotes and the parts at even positions, those outside quotes, are
\* lower-cased; a character is outside quotes when an even number of quotes
\* stands before it.
lowerDefaultValueIfNecessary(value) ==
    IF ~value.defined \/ value.text = <<>> THEN value
    ELSE Text([i \in 1..Len(value.text) |->
                 IF Cardinality({j \in 1..(i - 1) : value.text[j] = "'"}) % 2 = 0
                 THEN Recase(value.text[i], UpperCaseLetters, LowerCaseLetters)
                 ELSE value.text[i]])

\* A variant of isColumnChanged that compares the default and the enum
\* values of every column.
isColumnChangedEveryField(tableColumn, columnMetadata) ==
    \/ tableColumn.name # columnMetadata.databaseName
    \/ compareColumnType(tableColumn, columnMetadata)
    \/ compareColumnLength(tableColumn, columnMetadata)
    \/ tableColumn.precision # columnMetadata.precision
    \/ tableColumn.scale # columnMetadata.scale
    \/ tableColumn.isGenerated # columnMetadata.isGenerated
    \/ lowerDefaultValueIfNecessary(normalizeDefault(columnMetadata))
         # lowerDefaultValueIfNecessary(tableColumn.default)
    \/ tableColumn.isPrimary # columnMetadata.isPrimary
    \/ tableColumn.isNullable # columnMetadata.isNullable
    \/ tableColumn.asExpression # columnMetadata.asExpression
    \/ tableColumn.generatedType # columnMetadata.generatedType
    \/ tableColumn.isUnique # normalizeIsUnique(columnMetadata)
    \/ ~isArraysEqual(tableColumn.enum, columnMetadata.enum)

\* findChangedColumns, the value of isColumnChanged (lines 811-837).  An
\* enum is undefined when it is the empty list; the declared enum values
\* are strings already, so `val + ""` leaves them as they are.
isColumnChanged(tableColumn, columnMetadata) ==
    \/ tableColumn.name # columnMetadata.databaseName
    \/ compareColumnType(tableColumn, columnMetadata)
    \/ compareColumnLength(tableColumn, columnMetadata)
    \/ tableColumn.precision # columnMetadata.precision
    \/ tableColumn.scale # columnMetadata.scale
    \/ tableColumn.isGenerated # columnMetadata.isGenerated
    \/ /\ ~tableColumn.isGenerated
       /\ lowerDefaultValueIfNecessary(normalizeDefault(columnMetadata))
            # lowerDefaultValueIfNecessary(tableColumn.default)
    \/ tableColumn.isPrimary # columnMetadata.isPrimary
    \/ tableColumn.isNullable # columnMetadata.isNullable
    \/ tableColumn.asExpression # columnMetadata.asExpression
    \/ tableColumn.generatedType # columnMetadata.generatedType
    \/ tableColumn.isUnique # normalizeIsUnique(columnMetadata)
    \/ /\ tableColumn.enum # <<>>
       /\ columnMetadata.enum # <<>>
       /\ ~isArraysEqual(tableColumn.enum, columnMetadata.enum)

\* findChangedColumns (lines 804-909)
findChangedColumns(tableColumns, columnMetadatas) ==
    SelectSeq(columnMetadatas,
              LAMBDA columnMetadata :
                 LET at == FindByName(tableColumns, columnMetadata.databaseName) IN
                 IF at = 0 THEN FALSE
                 ELSE isColumnChanged(tableColumns[at], columnMetadata))

\* The table column the database holds for a declared column once it is
\* synchronized: every compared field as the driver normalises it.
Normalized(columnMetadata) ==
    [name |-> columnMetadata.databaseName,
     type |-> normalizeType(columnMetadata),
     length |-> getColumnLength(columnMetadata),
     precision |-> columnMetadata.precision,
     scale |-> columnMetadata.scale,
     isGenerated |-> columnMetadata.isGenerated,
     default |-> normalizeDefault(columnMetadata),
     isPrimary |-> columnMetadata.isPrimary,
     isNullable |-> columnMetadata.isNullable,
     asExpression |-> columnMetadata.asExpression,
     generatedType |-> columnMetadata.generatedType,
     isUnique |-> normalizeIsUnique(columnMetadata),
     enum |-> columnMetadata.enum]

\* The options a declared column is given.
Declarations ==
    {"String", "nvarchar", "Number", "integer", "uuid", "length", "max",
     "precision", "scale", "isGenerated", "number", "boolean", "string",
     "now", "function", "isPrimary", "isNullable", "asExpression",
     "generatedType", "unique", "uniqueOfTwo", "enum"}

Declared(databaseName, ds) ==
    [ColumnMetadata(databaseName, "varchar") EXCEPT
       !.type = IF "String" \in ds THEN "String"
                ELSE IF "nvarchar" \in ds THEN "nvarchar"
                ELSE IF "Number" \in ds THEN "Number"
                ELSE IF "integer" \in ds THEN "integer"
                ELSE IF "uuid" \in ds THEN "uuid" ELSE @,
       !.length = IF "length" \in ds THEN <<"1", "0", "0">>
                  ELSE IF "max" \in ds THEN <<"m", "a", "x">> ELSE @,
       !.precision = IF "precision" \in ds THEN 10 ELSE @,
       !.scale = IF "scale" \in ds THEN 2 ELSE @,
       !.isGenerated = "isGenerated" \in ds,
       !.default =
          IF "number" \in ds THEN DefaultValue("number", 15, FALSE, <<>>)
          ELSE IF "boolean" \in ds THEN DefaultValue("boolean", 0, TRUE, <<>>)
          ELSE IF "string" \in ds
          THEN DefaultValue("string", 0, FALSE, <<"A", "b">>)
          ELSE IF "now" \in ds
          THEN DefaultValue("function", 0, FALSE,
                            <<"c", "u", "r", "r", "e", "n", "t", "_",
                              "t", "i", "m", "e", "s", "t", "a", "m", "p">>)
          ELSE IF "function" \in ds
          THEN DefaultValue("function", 0, FALSE,
                            <<"N", "E", "W", "I", "D", "(", ")">>)
          ELSE @,
       !.isPrimary = "isPrimary" \in ds,
       !.isNullable = "isNullable" \in ds,
       !.asExpression = IF "asExpression" \in ds THEN "a * 2" ELSE @,
       !.generatedType = IF "generatedType" \in ds THEN "STORED" ELSE @,
       !.enum = IF "enum" \in ds THEN <<"x", "y">> ELSE @,
       !.uniques = IF "unique" \in ds THEN <<<<databaseName>>>>
                   ELSE IF "uniqueOfTwo" \in ds THEN <<<<databaseName, "other">>>>
                   ELSE @]

\* The ways the column the database holds has drifted from the normalised
\* declaration.
Drifts ==
    {"none", "type", "length", "lengthCase", "precision", "scale",
     "isGenerated", "default", "defaultCase", "noDefault", "isPrimary",
     "isNullable", "asExpression", "generatedType", "isUnique", "enum",
     "enumOrder", "noEnum"}

Drifted(tableColumn, drift) ==
    [tableColumn EXCEPT
       !.type = IF drift = "type" THEN "text" ELSE @,
       !.length = IF drift = "length" THEN <<"5", "0">>
                  ELSE IF drift = "lengthCase" THEN toUpperCase(@) ELSE @,
       !.precision = IF drift = "precision" THEN 12 ELSE @,
       !.scale = IF drift = "scale" THEN 4 ELSE @,
       !.isGenerated = IF drift = "isGenerated" THEN ~@ ELSE @,
       !.default =
          IF drift = "default" THEN Text(<<"'", "z", "'">>)
          ELSE IF drift = "defaultCase" /\ @.defined THEN Text(toUpperCase(@.text))
          ELSE IF drift = "noDefault" THEN Undefined ELSE @,
       !.isPrimary = IF drift = "isPrimary" THEN ~@ ELSE @,
       !.isNullable = IF drift = "isNullable" THEN ~@ ELSE @,
       !.asExpression = IF drift = "asExpression" THEN "a * 3" ELSE @,
       !.generatedType = IF drift = "generatedType" THEN "VIRTUAL" ELSE @,
       !.isUnique = IF drift = "isUnique" THEN ~@ ELSE @,
       !.enum = IF drift = "enum" THEN <<"x", "z">>
                ELSE IF drift = "enumOrder" /\ Len(@) = 2 THEN <<@[2], @[1]>>
                ELSE IF drift = "noEnum" THEN <<>> ELSE @]

\* The declared columns of an entity and the columns loaded for its table:
\* "title" is declared with some options and is missing from the table or
\* held with some drift; "body" may be declared too, and is then missing,
\* in step, or of another type.
TitleInputs(ds) ==
    {<<>>} \cup {<<Drifted(Normalized(Declared("title", ds)), drift)>> :
                    drift \in Drifts}

BodyInputs ==
    {[declared |-> <<>>, loaded |-> <<>>],
     [declared |-> <<Declared("body", {})>>, loaded |-> <<>>],
     [declared |-> <<Declared("body", {})>>,
      loaded |-> <<Normalized(Declared("body", {}))>>],
     [declared |-> <<Declared("body", {"Number"})>>,
      loaded |-> <<Normalized(Declared("body", {}))>>],
     [declared |-> <<>>, loaded |-> <<Normalized(Declared("body", {}))>>]}

DiffInputs ==
    UNION {{[columnMetadatas |-> <<Declared("title", ds)>> \o body.declared,
             tableColumns |-> body.loaded \o title,
             results |-> <<>>,
             defaults |-> <<>>] :
               title \in TitleInputs(ds), body \in BodyInputs} :
           ds \in SubsetsUpTo(Declarations, MaxDeclarations)}

NoDiff ==
    [columnMetadatas |-> <<>>, tableColumns |-> <<>>, results |-> <<>>,
     defaults |-> <<>>]

InitDriverIdle == diff = NoDiff

InitDriver == diff \in DiffInputs

\* One run of the diff: findChangedColumns over the loaded columns and the
\* declared columns; the loaded columns stay as they are.
FindChangedColumns ==
    /\ Len(diff.results) < MaxRuns
    /\ diff' = [diff EXCEPT
                  !.results = Append(@, findChangedColumns(diff.tableColumns,
                                                           diff.columnMetadatas))]
    /\ UNCHANGED <<txVars, connVars, schemaVars, queryVars, bulkVars, loadVars, ddlVars, laterVars>>

\* normalizeDefault applied to the next declared column, and applied again
\* to a column whose default is the text the first application returned:
\* declared as a string, and declared as a function that returns the text.
NormalizeDefault ==
    /\ Len(diff.defaults) < Len(diff.columnMetadatas)
    /\ \E columnMetadata \in {diff.columnMetadatas[Len(diff.defaults) + 1]} :
       \E once \in {normalizeDefault(columnMetadata)} :
          diff' = [diff EXCEPT
                     !.defaults = Append(@,
                        [value |-> columnMetadata.default,
                         once |-> once,
                         asString |-> normalizeDefault(
                            [columnMetadata EXCEPT
                               !.default =
                                  IF once.defined
                                  THEN DefaultValue("string", 0, FALSE, once.text)
                                  ELSE NoDefault]),
                         asFunction |-> normalizeDefault(
                            [columnMetadata EXCEPT
                               !.default =
                                  IF once.defined
                                  THEN DefaultValue("function", 0, FALSE, once.text)
                                  ELSE NoDefault])])]
    /\ UNCHANGED <<txVars, connVars, schemaVars, queryVars, bulkVars, loadVars, ddlVars, laterVars>>

\* ------------------------------------------------------------------------
\* loadTables and loadViews
\* ------------------------------------------------------------------------
\* The database as the catalog shows it: its tables, each with the kinds of
\* its columns ("plain", "enum" for a user-defined type, "geometry",
\* "generated"), its views, and whether the typeorm_metadata table exists.
\* All tables and views are in the current schema.
CatalogTable(name, columns) == [name |-> name, columns |-> columns]

\* An optional list of names: omitted, or given (and then maybe empty).
Omitted == [given |-> FALSE, names |-> <<>>]

Given(names) == [given |-> TRUE, names |-> names]

\* One this.query call of the loading methods: what it asks for and, for a
\* query about one column, its table and the position of the column.
CatalogQuery(kind, table, column) ==
    [kind |-> kind, table |-> table, column |-> column]

BatchQuery(kind) == CatalogQuery(kind, "", 0)

\* The mapper of table.columns (lines 4668-5080): the queries it sends for
\* one column: the type name and the enum labels of a user-defined column
\* (lines 4775-4816), the srid of a spatial column (lines 4833-4853), the
\* expression of a generated column (lines 5020-5045).
ColumnQueries(dbTable, i) ==
    CASE dbTable.columns[i] = "enum" ->
            <<CatalogQuery("userDefinedTypeName", dbTable.name, i),
              CatalogQuery("enumLabels", dbTable.name, i)>>
      [] dbTable.columns[i] = "geometry" ->
            <<CatalogQuery("spatial", dbTable.name, i)>>
      [] dbTable.columns[i] = "generated" ->
            <<CatalogQuery("generatedExpression", dbTable.name, i)>>
      [] OTHER -> <<>>

RECURSIVE TableQueries(_, _)
TableQueries(dbTable, i) ==
    IF i > Len(dbTable.columns) THEN <<>>
    ELSE ColumnQueries(dbTable, i) \o TableQueries(dbTable, i + 1)

RECURSIVE TablesQueries(_)
TablesQueries(dbTables) ==
    IF dbTables = <<>> THEN <<>>
    ELSE TableQueries(Head(dbTables), 1) \o TablesQueries(Tail(dbTables))

\* loadTables (lines 4508-5228): the queries it sends and the names of the
\* tables it returns.
loadTables(database, tableNames) ==
    IF tableNames.given /\ tableNames.names = <<>>
    THEN [queries |-> <<>>, names |-> {}]
    ELSE LET first == <<BatchQuery("currentSchema"), BatchQuery("currentDatabase"),
                        BatchQuery("tables")>>
             dbTables == IF ~tableNames.given THEN database.tables
                         ELSE SelectSeq(database.tables,
                                        LAMBDA t : Includes(tableNames.names, t.name)) IN
         IF dbTables = <<>> THEN [queries |-> first, names |-> {}]
         ELSE [queries |-> first
                           \o <<BatchQuery("hasSupportForPartitionedTables"),
                                BatchQuery("columns"), BatchQuery("constraints"),
                                BatchQuery("indices"), BatchQuery("foreignKeys")>>
                           \o TablesQueries(dbTables),
               names |-> NamesOf(dbTables)]

\* A variant of loadViews that returns at once when the list is empty, as
\* loadTables does.
loadViewsOfGivenNames(database, viewNames) ==
    LET first == <<BatchQuery("currentSchema"), BatchQuery("hasTable")>> IN
    IF viewNames.given /\ viewNames.names = <<>>
    THEN [queries |-> <<>>, names |-> {}]
    ELSE IF ~database.hasMetadataTable THEN [queries |-> first, names |-> {}]
    ELSE [queries |-> first \o <<BatchQuery("currentDatabase"),
                                 BatchQuery("currentSchema"),
                                 BatchQuery("views"), BatchQuery("viewIndices")>>,
          names |-> IF ~viewNames.given THEN NamesOf(database.views)
                    ELSE NamesOf(SelectSeq(database.views,
                                           LAMBDA v : Includes(viewNames.names, v.name)))]

\* loadViews (lines 4394-4503): the same for the views.
loadViews(database, viewNames) ==
    LET first == <<BatchQuery("currentSchema"), BatchQuery("hasTable")>> IN
    IF ~database.hasMetadataTable THEN [queries |-> first, names |-> {}]
    ELSE LET names == IF ~viewNames.given THEN <<>> ELSE viewNames.names IN
         [queries |-> first \o <<BatchQuery("currentDatabase"),
                                 BatchQuery("currentSchema"),
                                 BatchQuery("views"), BatchQuery("viewIndices")>>,
          names |-> IF Len(names) = 0 THEN NamesOf(database.views)
                    ELSE NamesOf(SelectSeq(database.views,
                                           LAMBDA v : Includes(names, v.name)))]

\* The column lists of the tables in the database.
ColumnLists ==
    {<<"plain">>, <<"plain", "enum">>, <<"geometry", "plain">>,
     <<"generated", "enum">>}

\* The databases a load works on: up to MaxTables tables and up to two views.
Databases ==
    {[tables |-> tables, views |-> views, hasMetadataTable |-> metadata] :
        tables \in {<<>>}
                   \cup {<<CatalogTable("post", c)>> : c \in ColumnLists}
                   \cup (IF MaxTables < 2 THEN {}
                         ELSE {<<CatalogTable("post", c), CatalogTable("user", e)>> :
                                  c \in ColumnLists, e \in ColumnLists})
                   \cup (IF MaxTables < 3 THEN {}
                         ELSE {<<CatalogTable("post", c), CatalogTable("user", e),
                                 CatalogTable("tag", <<"plain">>)>> :
                                  c \in ColumnLists, e \in ColumnLists}),
        views \in {<<>>, <<[name |-> "v"]>>, <<[name |-> "v"], [name |-> "w"]>>},
        metadata \in BOOLEAN}

TableNameLists ==
    {Omitted, Given(<<>>), Given(<<"post">>), Given(<<"user", "post">>),
     Given(<<"ghost">>)}

ViewNameLists == {Omitted, Given(<<>>), Given(<<"w">>)}

NoLoad ==
    [database |-> [tables |-> <<>>, views |-> <<>>, hasMetadataTable |-> FALSE],
     calls |-> <<>>]

InitLoadIdle == load = NoLoad

InitDdl == ddl = <<>>

InitLoad == \E database \in Databases : load = [database |-> database, calls |-> <<>>]

LoadTables ==
    /\ Len(load.calls) < MaxLoads
    /\ \E tableNames \in TableNameLists :
       \E loaded \in {loadTables(load.database, tableNames)} :
          load' = [load EXCEPT
                     !.calls = Append(@, [method |-> "loadTables",
                                          names |-> tableNames,
                                          queries |-> loaded.queries,
                                          result |-> loaded.names])]
    /\ UNCHANGED <<txVars, connVars, schemaVars, queryVars, bulkVars, driverVars, ddlVars, laterVars>>

LoadViews ==
    /\ Len(load.calls) < MaxLoads
    /\ \E viewNames \in ViewNameLists :
       \E loaded \in {loadViews(load.database, viewNames)} :
          load' = [load EXCEPT
                     !.calls = Append(@, [method |-> "loadViews",
                                          names |-> viewNames,
                                          queries |-> loaded.queries,
                                          result |-> loaded.names])]
    /\ UNCHANGED <<txVars, connVars, schemaVars, queryVars, bulkVars, driverVars, ddlVars, laterVars>>

\* ------------------------------------------------------------------------
\* createDatabase, dropDatabase, createSchema, dropSchema
\* ------------------------------------------------------------------------
\* A statement about a database or a schema.
DdlQuery(op, name, guarded, cascade) ==
    [op |-> op, name |-> name, guarded |-> guarded, cascade |-> cascade]

\* hasDatabase (lines 1573-1578)
HasDatabaseSql(database) == DdlQuery("SELECT pg_database", database, FALSE, FALSE)

\* The schema of a schema path, given as its parts between dots
\* (lines 1680-1683, 1700-1703).
SchemaOfPath(schemaPath) ==
    IF Len(schemaPath) = 1 THEN schemaPath[1] ELSE schemaPath[2]

\* One call: the statements the method handed to query(), in order, with
\* the transaction state of the runner at that time, the down statement it
\* registered, and the error the call ended with.  PostgreSQL refuses to
\* create or drop a database inside a transaction block (lines 1641, 1660).
DdlCall(method, sent, down) ==
    [method |-> method, sent |-> sent, down |-> down,
     isTransactionActive |-> isTransactionActive,
     transactionDepth |-> transactionDepth,
     error |-> IF /\ isTransactionActive
                  /\ \E i \in 1..Len(sent) :
                        sent[i].op \in {"CREATE DATABASE", "DROP DATABASE"}
               THEN "QueryFailedError" ELSE ""]

\* createDatabase(database, ifNotExist) (lines 1643-1656); exists is the
\* answer of hasDatabase.
CreateDatabase ==
    /\ Len(ddl) < MaxDdl
    /\ \E ifNotExist \in BOOLEAN, exists \in BOOLEAN :
          /\ exists => ifNotExist
          /\ \E check \in {IF ifNotExist THEN <<HasDatabaseSql("test")>> ELSE <<>>} :
                ddl' = Append(ddl,
                   IF ifNotExist /\ exists
                   THEN DdlCall("createDatabase", check, <<>>)
                   ELSE DdlCall("createDatabase",
                                check \o <<DdlQuery("CREATE DATABASE", "test",
                                                    FALSE, FALSE)>>,
                                <<DdlQuery("DROP DATABASE", "test", FALSE, FALSE)>>))
    /\ UNCHANGED <<txVars, connVars, schemaVars, queryVars, bulkVars, driverVars,
                   loadVars, laterVars>>

\* dropDatabase(database, ifExist) (lines 1662-1668)
DropDatabase ==
    /\ Len(ddl) < MaxDdl
    /\ \E ifExist \in BOOLEAN :
          ddl' = Append(ddl,
             DdlCall("dropDatabase",
                     <<DdlQuery("DROP DATABASE", "test", ifExist, FALSE)>>,
                     <<DdlQuery("CREATE DATABASE", "test", FALSE, FALSE)>>))
    /\ UNCHANGED <<txVars, connVars, schemaVars, queryVars, bulkVars, driverVars,
                   loadVars, laterVars>>

\* createSchema(schemaPath, ifNotExist) (lines 1673-1687)
CreateSchema ==
    /\ Len(ddl) < MaxDdl
    /\ \E schemaPath \in {<<"s">>, <<"test", "s">>}, ifNotExist \in BOOLEAN :
          ddl' = Append(ddl,
             DdlCall("createSchema",
                     <<DdlQuery("CREATE SCHEMA", SchemaOfPath(schemaPath),
                                ifNotExist, FALSE)>>,
                     <<DdlQuery("DROP SCHEMA", SchemaOfPath(schemaPath),
                                FALSE, TRUE)>>))
    /\ UNCHANGED <<txVars, connVars, schemaVars, queryVars, bulkVars, driverVars,
                   loadVars, laterVars>>

\* dropSchema(schemaPath, ifExist, isCascade) (lines 1692-1707)
DropSchema ==
    /\ Len(ddl) < MaxDdl
    /\ \E schemaPath \in {<<"s">>, <<"test", "s">>}, ifExist \in BOOLEAN,
          isCascade \in BOOLEAN :
          ddl' = Append(ddl,
             DdlCall("dropSchema",
                     <<DdlQuery("DROP SCHEMA", SchemaOfPath(schemaPath),
                                ifExist, isCascade)>>,
                     <<DdlQuery("CREATE SCHEMA", SchemaOfPath(schemaPath),
                                FALSE, FALSE)>>))
    /\ UNCHANGED <<txVars, connVars, schemaVars, queryVars, bulkVars, driverVars,
                   loadVars, laterVars>>

\* ------------------------------------------------------------------------
\* clearDatabase
\* ------------------------------------------------------------------------
\* An error, with the step of clearDatabase it was thrown from.
ErrorFrom(kind, from) == [kind |-> kind, from |-> from]

NoError == ErrorFrom("", "")

\* The transaction fields of the runner.
TxState(active, depth) == [isTransactionActive |-> active, transactionDepth |-> depth]

\* startTransaction() as a step of another method: the fields after it and
\* the error it throws; fail names the step that throws (lines 1368-1390).
startTransaction(tx, fail) ==
    CASE fail = "before" ->
            [tx |-> TxState(FALSE, tx.transactionDepth),
             error |-> ErrorFrom("BroadcastError", "start")]
      [] fail = "query" ->
            [tx |-> TxState(TRUE, tx.transactionDepth),
             error |-> ErrorFrom("QueryFailedError", "start")]
      [] fail = "after" ->
            [tx |-> TxState(TRUE, tx.transactionDepth + 1),
             error |-> ErrorFrom("BroadcastError", "start")]
      [] OTHER ->
            [tx |-> TxState(TRUE, tx.transactionDepth + 1), error |-> NoError]

\* commitTransaction() / rollbackTransaction() as a step of another method
\* (lines 1396-1434).
endTransaction(tx, fail, op) ==
    IF ~tx.isTransactionActive
    THEN [tx |-> tx, error |-> ErrorFrom("TransactionNotStartedError", op)]
    ELSE CASE fail = "before" -> [tx |-> tx, error |-> ErrorFrom("BroadcastError", op)]
           [] fail = "query" -> [tx |-> tx, error |-> ErrorFrom("QueryFailedError", op)]
           [] OTHER ->
                [tx |-> TxState(IF tx.transactionDepth > 1 THEN TRUE ELSE FALSE,
                                tx.transactionDepth - 1),
                 error |-> IF fail = "after" THEN ErrorFrom("BroadcastError", op)
                           ELSE NoError]

\* The statements of the try block (lines 4335-4372), for a database with
\* one view, one materialized view, one table and one enum type.
ClearStatements ==
    <<"SELECT pg_views", "DROP VIEW", "SELECT pg_matviews",
      "DROP MATERIALIZED VIEW", "SELECT pg_tables", "DROP TABLE",
      "SELECT pg_type", "DROP TYPE">>

\* A variant of the catch block that throws what the rollback threw.
ClearCatchThrowsLast(tx, own, steps, error, failRollback) ==
    LET rolled == IF own THEN endTransaction(tx, failRollback, "rollback")
                  ELSE [tx |-> tx, error |-> NoError] IN
    [tx |-> rolled.tx,
     steps |-> steps \o (IF own THEN <<"rollback">> ELSE <<>>),
     failed |-> error,
     rollbackError |-> rolled.error,
     thrown |-> IF rolled.error # NoError THEN rolled.error ELSE error]

\* The catch block: rollback when clearDatabase opened
\* the transaction, whatever it throws is dropped, the error caught is
\* thrown on.
ClearCatch(tx, own, steps, error, failRollback) ==
    LET rolled == IF own THEN endTransaction(tx, failRollback, "rollback")
                  ELSE [tx |-> tx, error |-> NoError] IN
    [tx |-> rolled.tx,
     steps |-> steps \o (IF own THEN <<"rollback">> ELSE <<>>),
     failed |-> error,
     rollbackError |-> rolled.error,
     thrown |-> error]

\* clearDatabase(): failStart, failCommit and
\* failRollback name the step of the transaction call that throws, failAt
\* the statement of the try block that fails (0 for none).
clearDatabase(tx, failStart, failAt, failCommit, failRollback) ==
    LET isAnotherTransactionActive == tx.isTransactionActive
        own == ~isAnotherTransactionActive
        started == IF own THEN startTransaction(tx, failStart)
                   ELSE [tx |-> tx, error |-> NoError]
        first == IF own THEN <<"start">> ELSE <<>> IN
    IF started.error # NoError
    THEN [tx |-> started.tx, steps |-> first, failed |-> started.error,
          rollbackError |-> NoError, thrown |-> started.error]
    ELSE IF failAt > 0
    THEN ClearCatch(started.tx, own,
                    first \o SubSeq(ClearStatements, 1, failAt),
                    ErrorFrom("QueryFailedError", ClearStatements[failAt]),
                    failRollback)
    ELSE LET committed == IF own THEN endTransaction(started.tx, failCommit, "commit")
                          ELSE [tx |-> started.tx, error |-> NoError]
             steps == first \o ClearStatements
                      \o (IF own THEN <<"commit">> ELSE <<>>) IN
         IF committed.error # NoError
         THEN ClearCatch(committed.tx, own, steps, committed.error, failRollback)
         ELSE [tx |-> committed.tx, steps |-> steps, failed |-> NoError,
               rollbackError |-> NoError, thrown |-> NoError]

InitClear == clear = <<>>

FailSteps == {"none", "before", "query", "after"}

ClearDatabase ==
    /\ Len(clear) < MaxClears
    /\ \E failStart \in FailSteps, failAt \in 0..Len(ClearStatements),
          failCommit \in FailSteps, failRollback \in FailSteps :
          \* a choice that is never looked at is left at its first value
          /\ (isTransactionActive => failStart = "none")
          /\ (failAt > 0 \/ isTransactionActive \/ failStart # "none")
                => failCommit = "none"
          /\ (isTransactionActive \/ failStart # "none"
                \/ (failAt = 0 /\ failCommit = "none")) => failRollback = "none"
          /\ \E done \in {clearDatabase(TxState(isTransactionActive, transactionDepth),
                                        failStart, failAt, failCommit, failRollback)} :
                /\ isTransactionActive' = done.tx.isTransactionActive
                /\ transactionDepth' = done.tx.transactionDepth
                /\ clear' = Append(clear,
                      [isAnotherTransactionActive |-> isTransactionActive,
                       depthBefore |-> transactionDepth,
                       depthAfter |-> done.tx.transactionDepth,
                       activeAfter |-> done.tx.isTransactionActive,
                       steps |-> done.steps, failed |-> done.failed,
                       rollbackError |-> done.rollbackError,
                       thrown |-> done.thrown])
    /\ UNCHANGED <<calls, connVars, schemaVars, queryVars, bulkVars, driverVars,
                   loadVars, ddlVars, catalogVars, parametrizeVars>>

\* ------------------------------------------------------------------------
\* loadTables: the Table objects built from the catalog rows
\* ------------------------------------------------------------------------
\* A constraint or index of the catalog; the queries of loadTables return
\* one row per column of it.
CatalogObject(schema, table, type, name, columnNames) ==
    [table_schema |-> schema, table_name |-> table, constraint_type |-> type,
     constraint_name |-> name, columnNames |-> columnNames]

CatalogRow(object, i) ==
    [table_schema |-> object.table_schema, table_name |-> object.table_name,
     constraint_type |-> object.constraint_type,
     constraint_name |-> object.constraint_name,
     column_name |-> object.columnNames[i]]

RECURSIVE CatalogRows(_)
CatalogRows(objects) ==
    IF objects = <<>> THEN <<>>
    ELSE [i \in 1..Len(Head(objects).columnNames) |-> CatalogRow(Head(objects), i)]
         \o CatalogRows(Tail(objects))

\* OrmUtils.uniq(array, criteria): the first member of every key
uniq(array, criteria(_)) ==
    SelectSeq([i \in 1..Len(array) |-> [at |-> i, row |-> array[i]]],
              LAMBDA m : \A j \in 1..(m.at - 1) :
                            criteria(array[j]) # criteria(m.row))

ColumnNamesOfRows(rows) == [i \in 1..Len(rows) |-> rows[i].column_name]

OfTable(row, dbTable) ==
    /\ row.table_name = dbTable.table_name
    /\ row.table_schema = dbTable.table_schema

\* The constraints of one type of a table: the rows of the table and the
\* type, one per constraint name, each with the columns of the rows that
\* carry its name.
ConstraintsOfType(dbTable, rows, type) ==
    LET own == uniq(SelectSeq(rows, LAMBDA r :
                       OfTable(r, dbTable) /\ r.constraint_type = type),
                    LAMBDA r : r.constraint_name) IN
    [i \in 1..Len(own) |->
        [name |-> own[i].row.constraint_name,
         columnNames |-> ColumnNamesOfRows(SelectSeq(rows, LAMBDA r :
                            r.constraint_name = own[i].row.constraint_name))]]

\* The indices of a table.
IndicesOfTable(dbTable, dbIndices) ==
    LET own == uniq(SelectSeq(dbIndices, LAMBDA r : OfTable(r, dbTable)),
                    LAMBDA r : r.constraint_name) IN
    [i \in 1..Len(own) |->
        [name |-> own[i].row.constraint_name,
         columnNames |-> ColumnNamesOfRows(SelectSeq(dbIndices, LAMBDA r :
                            /\ r.table_schema = own[i].row.table_schema
                            /\ r.table_name = own[i].row.table_name
                            /\ r.constraint_name = own[i].row.constraint_name))]]

\* tableColumn.isUnique of a column
ColumnIsUnique(dbColumn, dbConstraints) ==
    LET columnConstraints ==
            SelectSeq(dbConstraints, LAMBDA r :
                /\ r.table_name = dbColumn.table_name
                /\ r.table_schema = dbColumn.table_schema
                /\ r.column_name = dbColumn.column_name)
        uniqueConstraints ==
            SelectSeq(columnConstraints, LAMBDA r : r.constraint_type = "UNIQUE")
        isConstraintComposite ==
            \A u \in Range(uniqueConstraints) :
                \E dbConstraint \in Range(dbConstraints) :
                    /\ dbConstraint.constraint_type = "UNIQUE"
                    /\ dbConstraint.constraint_name = u.constraint_name
                    /\ dbConstraint.column_name # dbColumn.column_name IN
    Len(uniqueConstraints) > 0 /\ ~isConstraintComposite

\* The Table built for one row of dbTables.
BuildTable(dbTable, dbColumns, dbConstraints, dbForeignKeys, dbIndices) ==
    LET columns == SelectSeq(dbColumns, LAMBDA c : OfTable(c, dbTable)) IN
    [schema |-> dbTable.table_schema,
     name |-> dbTable.table_name,
     columns |-> [i \in 1..Len(columns) |->
                    [name |-> columns[i].column_name,
                     isUnique |-> ColumnIsUnique(columns[i], dbConstraints)]],
     uniques |-> ConstraintsOfType(dbTable, dbConstraints, "UNIQUE"),
     checks |-> ConstraintsOfType(dbTable, dbConstraints, "CHECK"),
     foreignKeys |-> ConstraintsOfType(dbTable, dbForeignKeys, "FOREIGN KEY"),
     indices |-> IndicesOfTable(dbTable, dbIndices)]

\* The tables of a batch: one in each of two schemas, each with the
\* columns a and b.
BatchTables ==
    <<[table_schema |-> "public", table_name |-> "post"],
      [table_schema |-> "audit", table_name |-> "log"]>>

BatchColumns ==
    <<[table_schema |-> "public", table_name |-> "post", column_name |-> "a"],
      [table_schema |-> "public", table_name |-> "post", column_name |-> "b"],
      [table_schema |-> "audit", table_name |-> "log", column_name |-> "a"],
      [table_schema |-> "audit", table_name |-> "log", column_name |-> "b"]>>

\* The constraints and indices the tables of a batch may have.
CatalogObjects ==
    <<CatalogObject("public", "post", "UNIQUE", "uq_code", <<"a">>),
      CatalogObject("public", "post", "UNIQUE", "uq_pair", <<"a", "b">>),
      CatalogObject("public", "post", "CHECK", "chk_sign", <<"a">>),
      CatalogObject("public", "post", "FOREIGN KEY", "fk_owner", <<"a">>),
      CatalogObject("public", "post", "INDEX", "idx_code", <<"a">>),
      CatalogObject("audit", "log", "UNIQUE", "uq_code", <<"b">>),
      CatalogObject("audit", "log", "UNIQUE", "uq_log", <<"b">>),
      CatalogObject("audit", "log", "CHECK", "chk_sign", <<"b">>),
      CatalogObject("audit", "log", "FOREIGN KEY", "fk_owner", <<"b">>),
      CatalogObject("audit", "log", "INDEX", "idx_code", <<"b">>)>>

\* The catalogs a batch is loaded from: at most MaxCatalogObjects objects.
Catalogs ==
    {SelectSeq(CatalogObjects, LAMBDA o : o \in chosen) :
        chosen \in SubsetsUpTo(Range(CatalogObjects), MaxCatalogObjects)}

OfTypes(objects, types) ==
    SelectSeq(objects, LAMBDA o : o.constraint_type \in types)

NoCatalog == [objects |-> <<>>, loaded |-> FALSE, tables |-> <<>>]

InitCatalogIdle == catalog = NoCatalog

InitCatalog == \E objects \in Catalogs : catalog = [NoCatalog EXCEPT !.objects = objects]

\* loadTables, from the rows of its batch queries to the tables returned
BuildTables ==
    /\ ~catalog.loaded
    /\ \E dbConstraints \in {CatalogRows(OfTypes(catalog.objects, {"UNIQUE", "CHECK"}))},
          dbForeignKeys \in {CatalogRows(OfTypes(catalog.objects, {"FOREIGN KEY"}))},
          dbIndices \in {CatalogRows(OfTypes(catalog.objects, {"INDEX"}))} :
          catalog' = [catalog EXCEPT
                        !.loaded = TRUE,
                        !.tables = [i \in 1..Len(BatchTables) |->
                                      BuildTable(BatchTables[i], BatchColumns,
                                                 dbConstraints, dbForeignKeys,
                                                 dbIndices)]]
    /\ UNCHANGED <<txVars, connVars, schemaVars, queryVars, bulkVars, driverVars,
                   loadVars, ddlVars, clearVars, parametrizeVars>>

\* ------------------------------------------------------------------------
\* SqlServerDriver.parametrizeMap
\* ------------------------------------------------------------------------
\* The values of a map: a primitive, null, or an object (a Date, a Buffer).
MapValues == {[kind |-> "number"], [kind |-> "null"], [kind |-> "object"]}

\* The columns of the table's metadata, by database name, with their type.
MetadataColumns == {[databaseName |-> "id", type |-> "int"],
                    [databaseName |-> "title", type |-> "nvarchar"]}

MapKeys == {"id", "title", "extra"}

\* metadata.findColumnWithDatabaseName(key): the set of columns it finds
findColumnWithDatabaseName(key) == {c \in MetadataColumns : c.databaseName = key}

\* parametrizeValue(column, value) for a column without length, precision
\* and scale
parametrizeValue(column, value) ==
    [kind |-> "MssqlParameter", value |-> value, type |-> column.type]

\* The object parametrizeMap starts its reduce with.
NewMap == [kind |-> "map"]

\* What the reduce carries from key to key: the value it holds (the new
\* map, or whatever a callback returned), the properties set on it and the
\* error thrown.
Carried(holds, entries, error) == [holds |-> holds, entries |-> entries, error |-> error]

\* newMap[key] = parameter: a property of an object is set; on null the
\* assignment throws; on a primitive it throws in strict code and does
\* nothing in sloppy code.
SetProperty(newMap, key, parameter, strict) ==
    IF newMap.holds.kind \in {"map", "object"}
    THEN [newMap EXCEPT !.entries = Append(@, [key |-> key, value |-> parameter])]
    ELSE IF newMap.holds.kind = "null" \/ strict
    THEN [newMap EXCEPT !.error = "TypeError"]
    ELSE newMap

\* The callback of the reduce.
ReduceStep(newMap, entry, strict) ==
    LET column == findColumnWithDatabaseName(entry.key) IN
    IF column = {} THEN Carried(entry.value, <<>>, "")
    ELSE SetProperty(newMap, entry.key,
                     parametrizeValue(CHOOSE c \in column : TRUE, entry.value),
                     strict)

RECURSIVE Reduce(_, _, _)
Reduce(newMap, map, strict) ==
    IF map = <<>> \/ newMap.error # "" THEN newMap
    ELSE Reduce(ReduceStep(newMap, Head(map), strict), Tail(map), strict)

\* parametrizeMap(tablePath, map); map lists the properties in the order
\* of Object.keys.
parametrizeMap(hasMetadata, map, strict) ==
    IF ~hasMetadata THEN Carried(NewMap, map, "")
    ELSE Reduce(Carried(NewMap, <<>>, ""), map, strict)

\* The maps of up to MaxKeys properties.
RECURSIVE MapsOfLength(_)
MapsOfLength(n) ==
    IF n = 0 THEN {<<>>}
    ELSE {Append(shorter, [key |-> key, value |-> value]) :
             shorter \in MapsOfLength(n - 1), key \in MapKeys, value \in MapValues}

Maps ==
    {map \in UNION {MapsOfLength(n) : n \in 0..MaxKeys} :
        \A i, j \in 1..Len(map) : map[i].key = map[j].key => i = j}

NoResult == Carried(NewMap, <<>>, "")

NoParametrize ==
    [hasMetadata |-> FALSE, map |-> <<>>, strict |-> FALSE, called |-> FALSE,
     result |-> NoResult]

InitParametrizeIdle == parametrize = NoParametrize

InitParametrize ==
    \E hasMetadata \in BOOLEAN, map \in Maps, strict \in BOOLEAN :
        parametrize = [NoParametrize EXCEPT !.hasMetadata = hasMetadata,
                                            !.map = map, !.strict = strict]

ParametrizeMap ==
    /\ ~parametrize.called
    /\ parametrize' =
          [parametrize EXCEPT
             !.called = TRUE,
             !.result = parametrizeMap(parametrize.hasMetadata, parametrize.map,
                                       parametrize.strict)]
    /\ UNCHANGED <<txVars, connVars, schemaVars, queryVars, bulkVars, driverVars,
                   loadVars, ddlVars, clearVars, catalogVars>>

\* ------------------------------------------------------------------------
\* Initial states and specifications
\* ------------------------------------------------------------------------
InitTx ==
    /\ isTransactionActive = FALSE
    /\ transactionDepth = 0
    /\ calls = <<>>
    /\ queryCalls = <<>>
    /\ bulk = NoBulk

InitConn ==
    /\ databaseConnection = 0
    /\ databaseConnectionPromise = 0
    /\ releaseCallback = 0
    /\ isReleased = FALSE
    /\ connectedQueryRunners = 0
    /\ listenerAttached = {}
    /\ promises = <<>>
    /\ releaseCalls = 0
    /\ obtainCalls = <<>>
    /\ poolReleases = <<>>
    /\ received = <<>>
    /\ mode \in {"master", "slave"}
    /\ isReplicated \in BOOLEAN

\* The database that holds exactly the given table: what its creation
\* statements produce on an empty database.
DatabaseOf(table) ==
    ExecFrom(EmptyDb, createTable(EmptyDb, table, FALSE, TRUE, TRUE).up, 1, 0).db

\* An enum type left behind by another table.
MoodType == [name |-> "mood", values |-> <<"x", "y">>]

InitSchemaIdle ==
    /\ cache = NoTable
    /\ db = EmptyDb
    /\ lastOp = NoOp

\* Before a schema operation: a table is loaded and the database holds it,
\* or nothing is loaded and the database holds no table.
InitSchema ==
    /\ lastOp = NoOp
    /\ \/ \E table \in LoadedTables : cache = table /\ db = DatabaseOf(table)
       \/ cache = NoTable /\ db \in {EmptyDb, [EmptyDb EXCEPT !.types = {MoodType}]}

\* The variables of the later sections before any call.
InitLater == InitClear /\ InitCatalogIdle /\ InitParametrizeIdle

InitTxSpec == InitTx /\ InitConn /\ mode = "master" /\ isReplicated = FALSE
              /\ InitSchemaIdle /\ InitDriverIdle /\ InitLoadIdle /\ InitDdl /\ InitLater

NextTx == StartTransaction \/ CommitTransaction \/ RollbackTransaction

SpecTx == InitTxSpec /\ [][NextTx]_vars

InitConnSpec == InitTx /\ InitConn /\ InitSchemaIdle /\ InitDriverIdle /\ InitLoadIdle /\ InitDdl /\ InitLater

NextConn == Connect \/ ObtainResolve \/ ObtainReject \/ Release \/ ConnectionError

SpecConn == InitConnSpec /\ [][NextConn]_vars

NextQuery ==
    \/ Connect
    \/ ObtainResolve
    \/ ObtainReject
    \/ Release
    \/ ConnectionError
    \/ Query
    \/ QueryResume

SpecQuery == InitConnSpec /\ [][NextQuery]_vars

NextBulk == BulkCall \/ BulkSubmit \/ BulkSettle

SpecBulk == InitTxSpec /\ [][NextBulk]_vars

InitDiffSpec == InitTx /\ InitConn /\ mode = "master" /\ isReplicated = FALSE
                /\ InitSchemaIdle /\ InitDriver /\ InitLoadIdle /\ InitDdl /\ InitLater

NextDiff == FindChangedColumns \/ NormalizeDefault

SpecDiff == InitDiffSpec /\ [][NextDiff]_vars

InitLoadSpec == InitTx /\ InitConn /\ mode = "master" /\ isReplicated = FALSE
                /\ InitSchemaIdle /\ InitDriverIdle /\ InitLoad /\ InitDdl /\ InitLater

NextLoad == LoadTables \/ LoadViews

SpecLoad == InitLoadSpec /\ [][NextLoad]_vars

NextDatabase ==
    \/ StartTransaction
    \/ CommitTransaction
    \/ RollbackTransaction
    \/ CreateDatabase
    \/ DropDatabase
    \/ CreateSchema
    \/ DropSchema

SpecDatabase == InitTxSpec /\ [][NextDatabase]_vars

InitCatalogSpec == InitTx /\ InitConn /\ mode = "master" /\ isReplicated = FALSE
                   /\ InitSchemaIdle /\ InitDriverIdle /\ InitLoadIdle /\ InitDdl
                   /\ InitClear /\ InitCatalog /\ InitParametrizeIdle

SpecCatalog == InitCatalogSpec /\ [][BuildTables]_vars

InitParametrizeSpec == InitTx /\ InitConn /\ mode = "master" /\ isReplicated = FALSE
                       /\ InitSchemaIdle /\ InitDriverIdle /\ InitLoadIdle /\ InitDdl
                       /\ InitClear /\ InitCatalogIdle /\ InitParametrize

SpecParametrize == InitParametrizeSpec /\ [][ParametrizeMap]_vars

NextClear == StartTransaction \/ ClearDatabase

SpecClear == InitTxSpec /\ [][NextClear]_vars

InitSchemaSpec == InitTx /\ InitConn /\ mode = "master" /\ isReplicated = FALSE
                  /\ InitSchema /\ InitDriverIdle /\ InitLoadIdle /\ InitDdl /\ InitLater

SpecRenameTable == InitSchemaSpec /\ [][RenameTable]_vars

NextSchema ==
    \/ RenameTable
    \/ CreateTable
    \/ DropTable
    \/ AddColumn
    \/ DropColumn
    \/ RenameColumn
    \/ ChangeColumn
    \/ CreatePrimaryKey
    \/ UpdatePrimaryKeys
    \/ DropPrimaryKey
    \/ CreateUniqueConstraint
    \/ DropUniqueConstraint
    \/ CreateCheckConstraint
    \/ DropCheckConstraint
    \/ CreateExclusionConstraint
    \/ DropExclusionConstraint
    \/ CreateForeignKey
    \/ DropForeignKey
    \/ CreateIndex
    \/ DropIndex

SpecSchema == InitSchemaSpec /\ [][NextSchema]_vars

\* ------------------------------------------------------------------------
\* Properties of the schema operations
\* ------------------------------------------------------------------------
SchemaOperations ==
    {"addColumn", "dropColumn", "renameColumn", "changeColumn",
     "createPrimaryKey", "updatePrimaryKeys", "dropPrimaryKey", "createTable",
     "dropTable", "renameTable"}

\* What introspection tells two schemas apart by: the table, the columns
\* with their types (lengths included), the constraints and indices with
\* their names and columns.
SchemaOf(d) ==
    [table |-> d.table,
     columns |-> {[name |-> c.name, type |-> c.type] : c \in d.columns},
     constraints |-> d.constraints,
     indices |-> d.indices]

\* The database once the down list of the last call has run in reverse.
RolledBack == ExecFrom(db, Reverse(lastOp.down), 1, 0)

\* C1: whenever the up statements of a schema operation have all succeeded
\* on a schema S0, running the down statements in reverse order succeeds
\* and gives back a schema equal to S0: same columns, types, constraints
\* and constraint names.
C1_RoundTrip ==
    (lastOp.op \in SchemaOperations /\ lastOp.ok) =>
        /\ RolledBack.ok
        /\ SchemaOf(RolledBack.db) = SchemaOf(lastOp.dbBefore)

\* The name the naming strategy gives a constraint of the database on a
\* table of the given name.
GeneratedName(tableName, constraint) ==
    CASE constraint.kind = "PRIMARY KEY" ->
           primaryKeyName(tableName, constraint.columnNames)
      [] constraint.kind = "UNIQUE" ->
           uniqueConstraintName(tableName, constraint.columnNames)
      [] constraint.kind = "FOREIGN KEY" ->
           foreignKeyName(tableName, constraint.columnNames)
      [] OTHER -> ""

\* The renames the cascade of a table rename owes: one per primary-key,
\* unique and foreign-key constraint and per index of the database that
\* carries the generated name.
OwedTableRenames(before, oldName, newName) ==
    {RenameSql("RENAME CONSTRAINT", newName, c.name, GeneratedName(newName, c)) :
        c \in {k \in before.constraints :
                 /\ k.kind \in {"PRIMARY KEY", "UNIQUE", "FOREIGN KEY"}
                 /\ k.name = GeneratedName(oldName, k)}}
    \cup
    {RenameSql("RENAME INDEX", "", x.name, indexName(newName, x.columnNames, x.where)) :
        x \in {y \in before.indices :
                 y.name = indexName(oldName, y.columnNames, y.where)}}

GeneratedColumnNames(table, before, column) ==
    {GeneratedName(table.name, c) :
        c \in {k \in before.constraints : Includes(k.columnNames, column.name)}}
    \cup {indexName(table.name, x.columnNames, x.where) :
            x \in {y \in before.indices : Includes(y.columnNames, column.name)}}
    \cup {table.name \o "_" \o column.name \o "_enum"}

\* C3: when renameColumn renames a column, every rename statement for a
\* dependent object (primary key, unique, index, foreign key, enum type)
\* is for an object whose current name is the one generated by default for
\* the pre-rename column name; a user-named object, an enum type with an
\* explicit enumName included, gets none.
C3_ColumnRenameCascade ==
    lastOp.op = "renameColumn" =>
        \A q \in Range(lastOp.up) :
            q.op \in {"RENAME CONSTRAINT", "RENAME INDEX", "RENAME TYPE"} =>
                q.name \in GeneratedColumnNames(lastOp.cacheBefore, lastOp.dbBefore,
                                                lastOp.oldColumn)

\* The up and down lists of the enum change protocol for a column going
\* from old to new, written down from its description.
EnumProtocolUp(tableName, old, new) ==
    <<RenameSql("RENAME TYPE", "", buildEnumName(tableName, old, FALSE),
                buildEnumName(tableName, old, TRUE)),
      [op |-> "CREATE TYPE", name |-> buildEnumName(tableName, new, FALSE),
       values |-> new.enum]>>
    \o (IF old.default # "" THEN <<AlterColumnSql("DROP DEFAULT", tableName, old.name,
                                                  "")>> ELSE <<>>)
    \o <<AlterColumnTypeSql(tableName, old.name,
                            buildEnumName(tableName, new, FALSE), TRUE)>>
    \o (IF new.default # ""
        THEN <<AlterColumnSql("SET DEFAULT", tableName, old.name,
                              new.default)>> ELSE <<>>)
    \o <<[op |-> "DROP TYPE", name |-> buildEnumName(tableName, old, TRUE)]>>

EnumProtocolDownReversed(tableName, old, new) ==
    <<[op |-> "CREATE TYPE", name |-> buildEnumName(tableName, old, TRUE),
       values |-> old.enum]>>
    \o (IF new.default # "" THEN <<AlterColumnSql("DROP DEFAULT", tableName, old.name,
                                                  "")>> ELSE <<>>)
    \o <<AlterColumnTypeSql(tableName, old.name,
                            buildEnumName(tableName, old, TRUE), TRUE)>>
    \o (IF old.default # ""
        THEN <<AlterColumnSql("SET DEFAULT", tableName, old.name,
                              old.default)>> ELSE <<>>)
    \o <<[op |-> "DROP TYPE", name |-> buildEnumName(tableName, new, FALSE)],
         RenameSql("RENAME TYPE", "", buildEnumName(tableName, old, TRUE),
                   buildEnumName(tableName, old, FALSE))>>

\* The call changes the enum value list or the enum type name of an enum
\* column and, besides that, at most whether and which default it has.
EnumOnlyChange ==
    /\ lastOp.op = "changeColumn"
    /\ IsEnum(lastOp.oldColumn)
    /\ \/ lastOp.newColumn.enum # lastOp.oldColumn.enum
       \/ lastOp.newColumn.enumName # lastOp.oldColumn.enumName
    /\ lastOp.newColumn = [lastOp.oldColumn EXCEPT
                              !.enum = lastOp.newColumn.enum,
                              !.enumName = lastOp.newColumn.enumName,
                              !.default = lastOp.newColumn.default]

\* C4: a changeColumn call that only changes the enum value list or enum
\* type name emits exactly: rename the old type to _old, create the new
\* type, drop the default if one existed, alter the column type, set the
\* default if the new column has one, drop the _old type, and nothing
\* else; the down list in reverse is the same with old and new swapped.
\* This for every combination of old and new default present or absent.
C4_EnumChangeProtocol ==
    EnumOnlyChange =>
        /\ lastOp.up = EnumProtocolUp(lastOp.target, lastOp.oldColumn,
                                      lastOp.newColumn)
        /\ Reverse(lastOp.down) =
              EnumProtocolDownReversed(lastOp.target, lastOp.oldColumn,
                                       lastOp.newColumn)

\* The names the database holds for the constraints of a kind.
DbNamesOf(d, kind) == {c.name : c \in {k \in d.constraints : k.kind = kind}}

\* C15: after renameTable has succeeded the cache holds the table under its
\* new name, with the constraint and index names the rename has left in the
\* database, and nothing under the old name.
C15_RenameTableCache ==
    (lastOp.op = "renameTable" /\ lastOp.ok) =>
        /\ cache.name = lastOp.newName
        /\ cache.name # lastOp.target
        /\ NamesOf(cache.uniques) = DbNamesOf(db, "UNIQUE")
        /\ NamesOf(cache.foreignKeys) = DbNamesOf(db, "FOREIGN KEY")
        /\ NamesOf(cache.indices) = {x.name : x \in db.indices}

\* The operations that keep the cache up to date themselves.
MutationOperations ==
    {"addColumn", "dropColumn", "renameColumn", "changeColumn",
     "createPrimaryKey", "updatePrimaryKeys", "dropPrimaryKey"}

\* C5: when the statements of a mutation operation fail, the cached table
\* with all its columns and constraints is exactly as before the call.
C5_FailedDdlLeavesCache ==
    (lastOp.op \in MutationOperations /\ lastOp.error = "QueryFailedError") =>
        cache = lastOp.cacheBefore

\* ------------------------------------------------------------------------
\* Properties of the transaction calls
\* ------------------------------------------------------------------------
\* The statements handed to the driver by calls from..to, in order.
SentBy(from, to) ==
    FlatMap([i \in 1..(to - from + 1) |-> calls[from + i - 1].stmts], LAMBDA s : s)

OkCall(i, op) == calls[i].op = op /\ calls[i].outcome = "ok"

\* The last 2n calls are n startTransaction() calls (no isolation level),
\* the first made at depth 0, followed by n commitTransaction() calls, all
\* of which returned normally.
NestedRun(n) ==
    /\ Len(calls) >= 2 * n
    /\ LET k == Len(calls) - 2 * n IN
       /\ calls[k + 1].depthBefore = 0
       /\ \A i \in 1..n : OkCall(k + i, "start") /\ calls[k + i].iso = ""
       /\ \A i \in (n + 1)..(2 * n) : OkCall(k + i, "commit")

NestedRunStatements(n) ==
    <<StartSql>>
    \o [i \in 1..(n - 1) |-> "SAVEPOINT " \o SavepointName(i)]
    \o [i \in 1..(n - 1) |-> "RELEASE SAVEPOINT " \o SavepointName(n - i)]
    \o <<"COMMIT">>

\* C6: n nested startTransaction() calls followed by n commitTransaction()
\* calls issue one START TRANSACTION, then SAVEPOINT typeorm_1..typeorm_(n-1),
\* then RELEASE SAVEPOINT typeorm_(n-1)..typeorm_1, then COMMIT, and nothing
\* else, and leave the transaction depth at 0.
C6_NestedCommitSequence ==
    \A n \in 1..MaxCalls :
        NestedRun(n) =>
            /\ SentBy(Len(calls) - 2 * n + 1, Len(calls)) = NestedRunStatements(n)
            /\ transactionDepth = 0

C6_Witness == NestedRun(3)

\* C7: commitTransaction()/rollbackTransaction() called at depth 0 fail with
\* TransactionNotStartedError and hand no statement to the driver.
C7_EndAtDepthZeroIsRejected ==
    \A i \in 1..Len(calls) :
        (calls[i].op \in {"commit", "rollback"} /\ calls[i].depthBefore = 0) =>
            (calls[i].outcome = "TransactionNotStartedError" /\ calls[i].stmts = <<>>)

AllCallsOk == \A i \in 1..Len(calls) : calls[i].outcome = "ok"

\* The first statement of every startTransaction that is still open after
\* the first k calls, innermost last (every successful start opens a level,
\* every successful commit/rollback closes the innermost one).
RECURSIVE OpenLevels(_)
OpenLevels(k) ==
    IF k = 0 THEN <<>>
    ELSE LET before == OpenLevels(k - 1)
             c == calls[k] IN
         IF c.outcome # "ok" THEN before
         ELSE IF c.op = "start" THEN Append(before, c.stmts[1])
         ELSE IF before = <<>> THEN before
         ELSE SubSeq(before, 1, Len(before) - 1)

DepthAfter(i) == IF i = Len(calls) THEN transactionDepth ELSE calls[i + 1].depthBefore

SavepointNames == {SavepointName(d) : d \in 0..MaxCalls}

\* C8: in a run of successful calls, commit (rollback) at depth d > 1 sends
\* RELEASE SAVEPOINT (ROLLBACK TO SAVEPOINT) for the savepoint created by the
\* innermost still-open startTransaction and lowers the depth by one; at
\* depth 1 it sends COMMIT (ROLLBACK) and the depth becomes 0.
C8_EndClosesInnermostLevel ==
    AllCallsOk =>
        \A i \in 1..Len(calls) :
            calls[i].op \in {"commit", "rollback"} =>
                LET open == OpenLevels(i - 1)
                    d == calls[i].depthBefore
                    verb == IF calls[i].op = "commit"
                            THEN "RELEASE SAVEPOINT " ELSE "ROLLBACK TO SAVEPOINT "
                    top == IF calls[i].op = "commit" THEN "COMMIT" ELSE "ROLLBACK" IN
                /\ d = Len(open)
                /\ DepthAfter(i) = d - 1
                /\ d > 1 => \E name \in SavepointNames :
                              /\ open[Len(open)] = "SAVEPOINT " \o name
                              /\ calls[i].stmts = <<verb \o name>>
                /\ d = 1 => calls[i].stmts = <<top>>

C8_Witness ==
    /\ AllCallsOk
    /\ \E i, j, k \in 1..Len(calls) :
          /\ calls[i].op = "rollback" /\ calls[i].depthBefore = 3
          /\ calls[j].op = "commit" /\ calls[j].depthBefore = 2
          /\ calls[k].op = "rollback" /\ calls[k].depthBefore = 1

\* ------------------------------------------------------------------------
\* Properties of connect() and release()
\* ------------------------------------------------------------------------
\* C9: the pool is asked for a connection at most once, and all callers of
\* connect() get the same connection; callers arriving before the obtain
\* promise settles get that one promise.
C9_SingleObtain ==
    /\ Len(obtainCalls) <= 1
    /\ \A i, j \in 1..Len(received) : received[i].conn = received[j].conn

C9_Witness ==
    /\ Len(received) = 3
    /\ received[1].kind = "promise"
    /\ received[2].kind = "promise"
    /\ received[3].kind = "value"

\* C10: the pool's release function is called at most once, and a release
\* (or error event) on a released runner changes nothing.
C10_ReleaseOnce ==
    /\ [](Len(poolReleases) <= 1)
    /\ [][(isReleased /\ releaseCalls' = releaseCalls + 1) =>
              UNCHANGED <<databaseConnection, databaseConnectionPromise,
                          releaseCallback, isReleased, connectedQueryRunners,
                          listenerAttached, obtainCalls, poolReleases,
                          received, promises>>]_vars

C10_Witness ==
    /\ releaseCalls = 3
    /\ Len(poolReleases) = 1
    /\ databaseConnection # 0

\* The obtain promise of every pool call has settled.
ObtainSettled == \A c \in 1..Len(promises) : promises[c] # "pending"

\* C11: once the runner is released (release() has returned; before the
\* obtain promise resolves nothing else can release it) and the obtain
\* promise has settled, every connection the runner obtained has been handed
\* back to the pool and the runner is not in connectedQueryRunners, whatever
\* the order of connect(), release() and the promise's resolution.
C11_NoLeakedConnection ==
    (isReleased /\ ObtainSettled) =>
        /\ \A c \in 1..Len(promises) :
              promises[c] = "resolved" =>
                 \E i \in 1..Len(poolReleases) : poolReleases[i].conn = c
        /\ connectedQueryRunners = 0

\* ------------------------------------------------------------------------
\* Properties of query()
\* ------------------------------------------------------------------------
\* The query() call this step has added, if it has added one.
QueryCalled == Len(queryCalls') = Len(queryCalls) + 1

\* C12: when the connection emits an error event while the runner is
\* connected and not released, the pool's release function is called with
\* that error for the runner's connection, the runner leaves
\* connectedQueryRunners, the error listener is detached, and every query()
\* called from then on fails with QueryRunnerAlreadyReleasedError.
C12_ErrorEventReleases ==
    /\ [][(ConnectionError /\ ~isReleased /\ databaseConnection # 0) =>
              /\ \E err \in Errors :
                    poolReleases' = Append(poolReleases,
                        [conn |-> databaseConnection, err |-> err])
              /\ connectedQueryRunners' = 0
              /\ databaseConnection \notin listenerAttached'
              /\ isReleased']_vars
    /\ [][(isReleased /\ QueryCalled) =>
              queryCalls'[Len(queryCalls')].outcome =
                  "QueryRunnerAlreadyReleasedError"]_vars
    /\ [][isReleased => isReleased']_vars

\* An error event has released the runner and a query() was called after it.
C12_Witness ==
    /\ poolReleases = <<[conn |-> 1, err |-> "ECONNRESET"]>>
    /\ connectedQueryRunners = 0
    /\ \E i \in 1..Len(queryCalls) :
          /\ queryCalls[i].releasedAtCall
          /\ queryCalls[i].outcome = "QueryRunnerAlreadyReleasedError"

\* C13: a query() call made on a released runner fails with
\* QueryRunnerAlreadyReleasedError at once, asks for no connection, emits no
\* query event and sends nothing to the database.
C13_QueryAfterRelease ==
    [][(isReleased /\ QueryCalled) =>
          /\ queryCalls'[Len(queryCalls')].outcome = "QueryRunnerAlreadyReleasedError"
          /\ queryCalls'[Len(queryCalls')].state = "done"
          /\ queryCalls'[Len(queryCalls')].sent = <<>>
          /\ queryCalls'[Len(queryCalls')].events = <<>>
          /\ UNCHANGED <<obtainCalls, received, promises, databaseConnectionPromise,
                         databaseConnection>>]_vars

\* release() was called on a connected runner, then query().
C13_Witness ==
    /\ isReleased
    /\ databaseConnection # 0
    /\ \E i \in 1..Len(poolReleases) : poolReleases[i].err = ""
    /\ \E i \in 1..Len(queryCalls) :
          /\ queryCalls[i].releasedAtCall
          /\ queryCalls[i].state = "done"

\* C14: a query() call hands its statement to the driver connection at
\* most once, and when that call fails the QueryFailedError thrown carries
\* the statement and the parameters query() was called with.
C14_QuerySentOnce ==
    \A i \in 1..Len(queryCalls) :
        /\ Len(queryCalls[i].sent) <= 1
        /\ \A k \in 1..Len(queryCalls[i].sent) :
              /\ queryCalls[i].sent[k].query = queryCalls[i].query
              /\ queryCalls[i].sent[k].parameters = queryCalls[i].parameters
        /\ queryCalls[i].outcome = "QueryFailedError" =>
              /\ Len(queryCalls[i].sent) = 1
              /\ queryCalls[i].error.query = queryCalls[i].query
              /\ queryCalls[i].error.parameters = queryCalls[i].parameters

\* A query() with parameters failed in the driver.
C14_Witness ==
    \E i \in 1..Len(queryCalls) :
        /\ queryCalls[i].outcome = "QueryFailedError"
        /\ queryCalls[i].parameters = <<"7">>
        /\ queryCalls[i].error.driverError = "syntax error"

\* ------------------------------------------------------------------------
\* Properties of the constraint and index operations
\* ------------------------------------------------------------------------
ConstraintOperations ==
    {"createUniqueConstraint", "dropUniqueConstraint", "createCheckConstraint",
     "dropCheckConstraint", "createExclusionConstraint",
     "dropExclusionConstraint", "createForeignKey", "dropForeignKey",
     "createIndex", "dropIndex", "dropPrimaryKey"}

\* C16: after a successful create/drop of a unique, check, exclusion or
\* foreign-key constraint or of an index, or a successful dropPrimaryKey,
\* the Table object that was cached before the call still shows the table
\* as it was before the call.
C16_NoInPlaceEdit ==
    (lastOp.op \in ConstraintOperations /\ lastOp.ok)
        => lastOp.held = lastOp.cacheBefore

FailFastOperations ==
    {"renameColumn", "changeColumn", "dropColumn", "dropUniqueConstraint",
     "dropCheckConstraint", "dropExclusionConstraint", "dropForeignKey",
     "dropIndex"}

\* The last call named a column, constraint or index that the table it was
\* called on does not contain.
TargetMissing ==
    LET t == lastOp.cacheBefore IN
    CASE lastOp.op \in {"renameColumn", "changeColumn", "dropColumn"} ->
            findColumnByName(t, lastOp.oldColumn.name) = 0
      [] lastOp.op = "dropUniqueConstraint" ->
            FindByName(t.uniques, lastOp.newName) = 0
      [] lastOp.op = "dropCheckConstraint" ->
            FindByName(t.checks, lastOp.newName) = 0
      [] lastOp.op = "dropExclusionConstraint" ->
            FindByName(t.exclusions, lastOp.newName) = 0
      [] lastOp.op = "dropForeignKey" ->
            FindByName(t.foreignKeys, lastOp.newName) = 0
      [] lastOp.op = "dropIndex" ->
            FindByName(t.indices, lastOp.newName) = 0
      [] OTHER -> FALSE

\* C17: renameColumn, changeColumn, dropColumn and the drops of a unique,
\* check, exclusion or foreign-key constraint or of an index, called with
\* a name the table does not contain, throw an error of their own, having
\* built and executed no statement, and leave the cached table and the
\* database as they were.
C17_FailFastOnMissingTarget ==
    (lastOp.op \in FailFastOperations /\ TargetMissing)
        => /\ ~lastOp.ok
           /\ lastOp.error \notin {"", "QueryFailedError"}
           /\ lastOp.up = <<>>
           /\ lastOp.executed = 0
           /\ db = lastOp.dbBefore
           /\ cache = lastOp.cacheBefore

\* dropUniqueConstraint was called with a name that none of the unique
\* constraints of the table has, on a table that has some.
C17_Witness ==
    /\ lastOp.op = "dropUniqueConstraint"
    /\ lastOp.newName = Missing
    /\ lastOp.cacheBefore.uniques # <<>>
    /\ lastOp.error = "TypeORMError"

\* ------------------------------------------------------------------------
\* Properties of the statement order
\* ------------------------------------------------------------------------
\* The positions of the statements of one kind in a list.
Positions(queries, op) == {i \in 1..Len(queries) : queries[i].op = op}

\* C18: in the up list of createTable every CREATE TYPE stands before the
\* CREATE TABLE statement and every CREATE INDEX after it; in the down list
\* read from its end, DROP TABLE stands before every DROP TYPE; and on a
\* database without the table the up list runs through, and the down list
\* read from its end runs through after it.
C18_CreateTableOrder ==
    (lastOp.op = "createTable" /\ lastOp.up # <<>>)
        => LET up == lastOp.up
               down == Reverse(lastOp.down)
               done == ExecFrom(lastOp.dbBefore, up, 1, 0) IN
           /\ Cardinality(Positions(up, "CREATE TABLE")) = 1
           /\ Cardinality(Positions(down, "DROP TABLE")) = 1
           /\ \A t \in Positions(up, "CREATE TABLE") :
                 /\ \A e \in Positions(up, "CREATE TYPE") : e < t
                 /\ \A x \in Positions(up, "CREATE INDEX") : t < x
           /\ \A t \in Positions(down, "DROP TABLE") :
                 /\ \A e \in Positions(down, "DROP TYPE") : t < e
                 /\ \A x \in Positions(down, "DROP INDEX") : x < t
           /\ lastOp.dbBefore.table = ""
                 => /\ done.ok
                    /\ ExecFrom(done.db, down, 1, 0).ok

\* createTable has created a table with an enum type and an index.
C18_Witness ==
    /\ lastOp.op = "createTable"
    /\ lastOp.ok
    /\ Positions(lastOp.up, "CREATE TYPE") # {}
    /\ Positions(lastOp.up, "CREATE INDEX") # {}
    /\ Positions(lastOp.down, "DROP TYPE") # {}

\* The names of the primary-key, unique and check constraints and of the
\* indices of the table that are over the column, alone or with others.
Dependents(table, columnName) ==
    LET over(members) ==
            {members[i].name : i \in
                {j \in 1..Len(members) : Includes(members[j].columnNames, columnName)}}
        pk == primaryColumns(table) IN
    over(table.uniques) \cup over(table.indices) \cup over(table.checks)
        \cup (IF Includes(columnNamesOf(pk), columnName)
              THEN {PrimaryKeyNameOf(table.name, pk)} ELSE {})

\* The names the statements of the given kinds carry, among the statements
\* before (after) the one statement of kind op.
NamedBefore(queries, kinds, op) ==
    {queries[i].name : i \in
        {j \in 1..Len(queries) :
            /\ queries[j].op \in kinds
            /\ \E p \in Positions(queries, op) : j < p}}

NamedAfter(queries, kinds, op) ==
    {queries[i].name : i \in
        {j \in 1..Len(queries) :
            /\ queries[j].op \in kinds
            /\ \E p \in Positions(queries, op) : p < j}}

\* C19: when dropColumn drops a column of the table, every primary-key,
\* unique and check constraint and every index over that column is dropped
\* by a statement of the up list that stands before DROP COLUMN, and is
\* created again by a statement of the down list, read from its end, that
\* stands after ADD COLUMN.
C19_DropColumnOrder ==
    (lastOp.op = "dropColumn" /\ lastOp.up # <<>>)
        => LET names == Dependents(lastOp.cacheBefore, lastOp.oldColumn.name) IN
           /\ names \subseteq
                 NamedBefore(lastOp.up, {"DROP CONSTRAINT", "DROP INDEX"},
                             "DROP COLUMN")
           /\ names \subseteq
                 NamedAfter(Reverse(lastOp.down),
                            {"ADD PRIMARY KEY", "ADD UNIQUE", "ADD CHECK",
                             "CREATE INDEX"},
                            "ADD COLUMN")

\* ------------------------------------------------------------------------
\* Properties of the enum types of createTable
\* ------------------------------------------------------------------------
\* How many statements of the kind carry the name.
CountNamed(queries, op, name) ==
    Cardinality({i \in Positions(queries, op) : queries[i].name = name})

\* The enum type names of the enum / simple-enum columns of the last
\* createTable call.
EnumNamesOfLastTable ==
    LET table == lastOp.tableAfter IN
    {buildEnumName(table.name, table.columns[i], FALSE) :
        i \in {j \in 1..Len(table.columns) : IsEnum(table.columns[j])}}

\* C20: the up list of createTable has at most one CREATE TYPE for each
\* enum type name of the table's columns, none for a name whose type is in
\* the database already and none for any other name, and the down list has
\* one DROP TYPE for each CREATE TYPE of the up list and no other.
C20_EnumTypeCreatedOnce ==
    lastOp.op = "createTable"
        => /\ \A name \in EnumNamesOfLastTable :
                 /\ CountNamed(lastOp.up, "CREATE TYPE", name) <= 1
                 /\ name \in TypeNames(lastOp.dbBefore)
                       => CountNamed(lastOp.up, "CREATE TYPE", name) = 0
                 /\ CountNamed(lastOp.down, "DROP TYPE", name)
                       = CountNamed(lastOp.up, "CREATE TYPE", name)
           /\ \A i \in Positions(lastOp.up, "CREATE TYPE") :
                 lastOp.up[i].name \in EnumNamesOfLastTable
           /\ \A i \in Positions(lastOp.down, "DROP TYPE") :
                 lastOp.down[i].name \in EnumNamesOfLastTable

\* createTable has created a table with two enum columns of one type name,
\* with one CREATE TYPE statement.
C20_Witness ==
    /\ lastOp.op = "createTable"
    /\ lastOp.ok
    /\ \E i, j \in 1..Len(lastOp.tableAfter.columns) :
          /\ i < j
          /\ IsEnum(lastOp.tableAfter.columns[i])
          /\ IsEnum(lastOp.tableAfter.columns[j])
          /\ buildEnumName("post", lastOp.tableAfter.columns[i], FALSE)
                = buildEnumName("post", lastOp.tableAfter.columns[j], FALSE)
    /\ Cardinality(Positions(lastOp.up, "CREATE TYPE")) = 1

\* ------------------------------------------------------------------------
\* Properties of the up and down lists
\* ------------------------------------------------------------------------
\* The database before the i-th statement of the up list of the last call.
BeforeUp(i) == ExecFrom(lastOp.dbBefore, lastOp.up, 1, i).db

\* C21: the up list and the down list a schema operation hands to
\* executeQueries have the same length, and the i-th down statement undoes
\* the i-th up statement: run after it, it succeeds and gives back the
\* schema the up statement was run on.
C21_PairedStatements ==
    lastOp.op \in SchemaOperations \cup ConstraintOperations
        => /\ Len(lastOp.up) = Len(lastOp.down)
           /\ \A i \in 1..lastOp.executed :
                 i <= Len(lastOp.down)
                    => LET done == Exec(BeforeUp(i), lastOp.up[i])
                           undone == Exec(done.db, lastOp.down[i]) IN
                       /\ undone.ok
                       /\ SchemaOf(undone.db) = SchemaOf(BeforeUp(i))

\* ------------------------------------------------------------------------
\* Properties of the bulk helpers
\* ------------------------------------------------------------------------
\* C22: a statement is handed to the connection only when no earlier
\* statement of the runner is still in flight, and the statements of a bulk
\* helper are handed over in the order of its list.
C22_SerialExecution ==
    \A k \in 1..Len(bulk.log) :
        /\ bulk.log[k].inFlight = {}
        /\ bulk.log[k].item = k

\* ------------------------------------------------------------------------
\* Properties of the driver's diff
\* ------------------------------------------------------------------------
\* The compared fields of a table column, with the length in upper case and
\* the default in lower case outside quotes, and the enum values as a set.
Compared(tableColumn) ==
    [type |-> <<tableColumn.type>>,
     length |-> toUpperCase(tableColumn.length),
     precision |-> <<tableColumn.precision>>,
     scale |-> <<tableColumn.scale>>,
     isGenerated |-> <<tableColumn.isGenerated>>,
     default |-> <<lowerDefaultValueIfNecessary(tableColumn.default)>>,
     isPrimary |-> <<tableColumn.isPrimary>>,
     isNullable |-> <<tableColumn.isNullable>>,
     asExpression |-> <<tableColumn.asExpression>>,
     generatedType |-> <<tableColumn.generatedType>>,
     isUnique |-> <<tableColumn.isUnique>>,
     enum |-> <<{tableColumn.enum[i] : i \in 1..Len(tableColumn.enum)}>>]

\* The fields in which the table column differs from the declared column
\* as the driver normalises it; type and length do not count for a
\* computed column.
DifferingFields(tableColumn, columnMetadata) ==
    {field \in DOMAIN Compared(tableColumn) :
        Compared(tableColumn)[field] # Compared(Normalized(columnMetadata))[field]}
    \ (IF columnMetadata.asExpression # "" THEN {"type", "length"} ELSE {})

\* The fields the diff leaves out: the default of a column the database
\* generates, and the enum values unless both columns have an enum.
ExemptFields(tableColumn, columnMetadata) ==
    (IF tableColumn.isGenerated THEN {"default"} ELSE {})
    \cup (IF tableColumn.enum = <<>> \/ columnMetadata.enum = <<>>
          THEN {"enum"} ELSE {})

HasTableColumn(columnMetadata) ==
    FindByName(diff.tableColumns, columnMetadata.databaseName) # 0

TableColumnOf(columnMetadata) ==
    diff.tableColumns[FindByName(diff.tableColumns, columnMetadata.databaseName)]

\* C23 as stated: findChangedColumns returns exactly the declared columns
\* that have a table column of the same name and differ from it in one of
\* the compared fields; a declared column without a table column of its
\* name is never returned, and identical columns give the empty list.
C23_ChangedColumns ==
    \A k \in 1..Len(diff.results) :
        diff.results[k] =
            SelectSeq(diff.columnMetadatas,
                      LAMBDA columnMetadata :
                         /\ HasTableColumn(columnMetadata)
                         /\ DifferingFields(TableColumnOf(columnMetadata),
                                            columnMetadata) # {})

\* C23, amended: findChangedColumns returns exactly the declared columns
\* that have a table column of the same name and differ from it in one of
\* the compared fields, where the default is compared only when the table
\* column is not generated and the enum values only when both columns have
\* an enum.
C23_ChangedColumnsAmended ==
    \A k \in 1..Len(diff.results) :
        diff.results[k] =
            SelectSeq(diff.columnMetadatas,
                      LAMBDA columnMetadata :
                         /\ HasTableColumn(columnMetadata)
                         /\ DifferingFields(TableColumnOf(columnMetadata),
                                            columnMetadata)
                              \ ExemptFields(TableColumnOf(columnMetadata),
                                             columnMetadata) # {})

\* A run that returned one declared column and left out another, which has
\* no table column of its name.
C23_Witness ==
    /\ Len(diff.results) >= 1
    /\ Len(diff.results[1]) = 1
    /\ Len(diff.columnMetadatas) = 2
    /\ \E i \in 1..2 : ~HasTableColumn(diff.columnMetadatas[i])

\* The table holds, for every declared column, the column the driver's
\* normalisation makes of it.
Synchronized ==
    \A i \in 1..Len(diff.columnMetadatas) :
        /\ HasTableColumn(diff.columnMetadatas[i])
        /\ TableColumnOf(diff.columnMetadatas[i]) = Normalized(diff.columnMetadatas[i])

\* C24: when the table columns are what the driver's normalisation makes of
\* the declared columns, every run of findChangedColumns returns the empty
\* list, the first and each repeated one; a column of length 255 is not
\* flagged against a declared varchar / nvarchar column without a length.
C24_DiffIdempotence ==
    Synchronized => \A k \in 1..Len(diff.results) : diff.results[k] = <<>>

\* Two runs over a synchronized table with a column of length 255 whose
\* declaration has no length.
C24_Witness ==
    /\ Synchronized
    /\ Len(diff.results) = MaxRuns
    /\ \E i \in 1..Len(diff.columnMetadatas) :
          /\ diff.columnMetadatas[i].length = <<>>
          /\ diff.columnMetadatas[i].type \in {"varchar", "nvarchar"}
          /\ TableColumnOf(diff.columnMetadatas[i]).length = <<"2", "5", "5">>

\* C25 as stated: normalizeDefault is idempotent: normalizing the text that
\* normalizeDefault returned for a default value gives that text again.
C25_NormalizeDefaultIdempotent ==
    \A k \in 1..Len(diff.defaults) :
        diff.defaults[k].asString = diff.defaults[k].once

\* C25, amended: the text normalizeDefault returned for a default value,
\* declared again as a function that returns it, is normalized to itself.
C25_NormalizeDefaultOfExpression ==
    \A k \in 1..Len(diff.defaults) :
        diff.defaults[k].asFunction = diff.defaults[k].once

\* The default () => "current_timestamp" was normalized to getdate(), and
\* a string default to its quoted text.
C25_Witness ==
    \E k \in 1..Len(diff.defaults) :
        /\ diff.defaults[k].value.kind \in {"function", "string"}
        /\ diff.defaults[k].once.text # diff.defaults[k].value.text
        /\ diff.defaults[k].asFunction = diff.defaults[k].once

\* ------------------------------------------------------------------------
\* Properties of loadTables and loadViews
\* ------------------------------------------------------------------------
\* Two calls of one method, the first without a list of names and the
\* second with the empty list.
OmittedAndEmpty(method, a, b) ==
    /\ load.calls[a].method = method
    /\ load.calls[b].method = method
    /\ load.calls[a].names = Omitted
    /\ load.calls[b].names = Given(<<>>)

\* C26 as stated: loadTables and loadViews treat the empty list of names as
\* the omitted one: both return all tables (all views) of the database.
C26_EmptyMeansAll ==
    \A a, b \in 1..Len(load.calls) :
        \A method \in {"loadTables", "loadViews"} :
            OmittedAndEmpty(method, a, b) =>
                load.calls[b].result = load.calls[a].result

\* C26, amended: loadViews treats the empty list of names as the omitted
\* one and returns all views; loadTables returns all tables when the list
\* is omitted, and no table, without a query, when it is empty.
C26_EmptyMeansAllViews ==
    \A a, b \in 1..Len(load.calls) :
        /\ OmittedAndEmpty("loadViews", a, b) =>
              /\ load.calls[b].result = load.calls[a].result
              /\ load.calls[b].queries = load.calls[a].queries
        /\ OmittedAndEmpty("loadTables", a, b) =>
              /\ load.calls[a].result = NamesOf(load.database.tables)
              /\ load.calls[b].result = {}
              /\ load.calls[b].queries = <<>>

\* loadViews called without a list and with the empty list on a database
\* with views, and loadTables likewise on a database with tables.
C26_Witness ==
    /\ load.database.views # <<>>
    /\ load.database.hasMetadataTable
    /\ \E a, b \in 1..Len(load.calls) :
          /\ OmittedAndEmpty("loadViews", a, b)
          /\ load.calls[a].result # {}

\* C27: a loadTables call that finds tables sends exactly one query each
\* for the columns, the constraints, the indices and the foreign keys, and
\* no query for a single table or column: the number of its queries is the
\* same for every number of tables.
C27_BatchQueries ==
    \A k \in 1..Len(load.calls) :
        (load.calls[k].method = "loadTables" /\ load.calls[k].result # {}) =>
            /\ \A kind \in {"columns", "constraints", "indices", "foreignKeys"} :
                  Cardinality({i \in 1..Len(load.calls[k].queries) :
                                  load.calls[k].queries[i].kind = kind}) = 1
            /\ \A i \in 1..Len(load.calls[k].queries) :
                  load.calls[k].queries[i].table = ""
            /\ \A j \in 1..Len(load.calls) :
                  (load.calls[j].method = "loadTables" /\ load.calls[j].result # {})
                     => Len(load.calls[j].queries) = Len(load.calls[k].queries)

\* ------------------------------------------------------------------------
\* Properties of the database and schema operations
\* ------------------------------------------------------------------------
\* C28: createDatabase, dropDatabase, createSchema and dropSchema called
\* while a transaction is active send no CREATE / DROP statement within
\* that transaction: the call ends with an error and nothing was sent.
C28_NotInsideTransaction ==
    \A k \in 1..Len(ddl) :
        ddl[k].isTransactionActive =>
            /\ ddl[k].error # ""
            /\ \A i \in 1..Len(ddl[k].sent) :
                  ddl[k].sent[i].op \notin {"CREATE DATABASE", "DROP DATABASE",
                                            "CREATE SCHEMA", "DROP SCHEMA"}

\* ------------------------------------------------------------------------
\* Properties of changeColumn and addColumn
\* ------------------------------------------------------------------------
\* The last call was a changeColumn that built its lists for a new column
\* that differs from the old one in name, nullability and default and has
\* its type and length.
RenamedNullableDefault ==
    /\ lastOp.op = "changeColumn"
    /\ lastOp.error \in {"", "QueryFailedError"}
    /\ lastOp.oldColumn.name # lastOp.newColumn.name
    /\ lastOp.oldColumn.isNullable # lastOp.newColumn.isNullable
    /\ lastOp.oldColumn.default # lastOp.newColumn.default
    /\ lastOp.oldColumn.type = lastOp.newColumn.type
    /\ lastOp.oldColumn.length = lastOp.newColumn.length

\* C29: when one changeColumn call changes the name, the nullability and
\* the default of a column, its up list holds RENAME COLUMN, then the
\* SET / DROP NOT NULL statement, then the SET / DROP DEFAULT statement.
C29_RenameNullableDefaultOrder ==
    RenamedNullableDefault =>
        LET rename == Positions(lastOp.up, "RENAME COLUMN")
            nullable == Positions(lastOp.up, "SET NOT NULL")
                        \cup Positions(lastOp.up, "DROP NOT NULL")
            default == Positions(lastOp.up, "SET DEFAULT")
                       \cup Positions(lastOp.up, "DROP DEFAULT") IN
        /\ Cardinality(rename) = 1
        /\ Cardinality(nullable) = 1
        /\ Cardinality(default) = 1
        /\ \A r \in rename, n \in nullable, d \in default : r < n /\ n < d

\* Such a call on a column with a default, which ran through.
C29_Witness ==
    /\ RenamedNullableDefault
    /\ lastOp.ok
    /\ lastOp.newColumn.default # ""
    /\ Len(lastOp.up) >= 3

\* The last call was an addColumn of a plain column: not primary, not
\* unique, not indexed, not an enum, not generated, without a comment.
PlainColumnAdded ==
    /\ lastOp.op = "addColumn"
    /\ ~lastOp.newColumn.isPrimary
    /\ ~lastOp.newColumn.isUnique
    /\ FirstOver(lastOp.cacheBefore.indices, lastOp.newColumn.name) = 0
    /\ ~IsEnum(lastOp.newColumn)
    /\ ~lastOp.newColumn.isGenerated
    /\ lastOp.newColumn.generatedType = ""
    /\ lastOp.newColumn.comment = ""

\* C30: addColumn of a plain column has one up statement, the ALTER TABLE
\* ... ADD of the column with its type, its NOT NULL clause and its DEFAULT
\* clause, and one down statement, the ALTER TABLE ... DROP COLUMN of the
\* column; after success the cached table is the one before with the
\* column appended.
C30_AddPlainColumn ==
    PlainColumnAdded =>
        /\ Len(lastOp.up) = 1
        /\ lastOp.up[1].op = "ADD COLUMN"
        /\ lastOp.up[1].table = lastOp.target
        /\ lastOp.up[1].def.name = lastOp.newColumn.name
        /\ lastOp.up[1].def.type = createFullType(lastOp.newColumn)
        /\ lastOp.up[1].def.notNull = ~lastOp.newColumn.isNullable
        /\ lastOp.up[1].def.default = lastOp.newColumn.default
        /\ lastOp.up[1].def.serial = ""
        /\ lastOp.up[1].def.generatedAs = ""
        /\ lastOp.down = <<[op |-> "DROP COLUMN", table |-> lastOp.target,
                            name |-> lastOp.newColumn.name]>>
        /\ lastOp.ok =>
              cache = [lastOp.cacheBefore EXCEPT
                         !.columns = Append(@, lastOp.newColumn)]

\* A plain column with NOT NULL and a default was added, and the call ran
\* through.
C30_Witness ==
    /\ PlainColumnAdded
    /\ lastOp.ok
    /\ ~lastOp.newColumn.isNullable
    /\ lastOp.newColumn.default # ""
    /\ Len(cache.columns) = Len(lastOp.cacheBefore.columns) + 1

\* ---- C31 ----------------------------------------------------------------
\* The steps of a clearDatabase() call that commit or roll back.
ClearEnds(c) == {i \in 1..Len(c.steps) : c.steps[i] \in {"commit", "rollback"}}

\* C31: when a statement of clearDatabase() fails, the error thrown is
\* that statement's error, also when the rollback fails too; commit and
\* rollback are issued only when clearDatabase() opened the transaction
\* itself; when the caller's transaction was active, clearDatabase()
\* neither commits nor rolls back and leaves the transaction depth as found.
C31_ClearDatabaseErrors ==
    \A k \in 1..Len(clear) :
        LET c == clear[k] IN
        /\ c.thrown = c.failed
        /\ (c.failed = NoError) => (c.rollbackError = NoError)
        /\ (ClearEnds(c) # {}) => ~c.isAnotherTransactionActive
        /\ c.isAnotherTransactionActive =>
              /\ ClearEnds(c) = {}
              /\ c.depthAfter = c.depthBefore
              /\ c.activeAfter

\* A statement of the try block failed, the rollback failed too, and the
\* statement's error was thrown.
C31_Witness ==
    \E k \in 1..Len(clear) :
        /\ clear[k].failed.kind = "QueryFailedError"
        /\ clear[k].failed.from = "DROP TABLE"
        /\ clear[k].rollbackError # NoError
        /\ clear[k].thrown = clear[k].failed

\* clearDatabase() ran inside the caller's transaction and a statement failed.
C31_WitnessCaller ==
    \E k \in 1..Len(clear) :
        /\ clear[k].isAnotherTransactionActive
        /\ clear[k].depthBefore > 0
        /\ clear[k].failed # NoError

\* ---- C32 ----------------------------------------------------------------
\* The name a column of the table before the call has after it.
FollowColumn(name) ==
    IF name = lastOp.oldColumn.name /\ lastOp.newColumn.name # ""
    THEN lastOp.newColumn.name ELSE name

\* The place of a name in a list of column names, 0 when it is not there.
PlaceOf(names, name) ==
    IF Includes(names, name)
    THEN CHOOSE i \in 1..Len(names) : names[i] = name
    ELSE 0

\* The columns that stand in both lists stand in the same order in both,
\* a renamed column under its new name in the second.
KeepsColumnOrder(before, after) ==
    \A i, j \in 1..Len(before) :
        (/\ i < j
         /\ PlaceOf(after, FollowColumn(before[i])) > 0
         /\ PlaceOf(after, FollowColumn(before[j])) > 0)
        => PlaceOf(after, FollowColumn(before[i]))
              < PlaceOf(after, FollowColumn(before[j]))

\* C32: createIndex renders the index's columns in the order of
\* index.columnNames, and no operation changes the order of the columns of
\* an index of the cached table, a rename of one of its columns included.
C32_IndexColumnOrder ==
    (lastOp.op # "none" /\ lastOp.ok) =>
        /\ lastOp.op = "createIndex" =>
              \A q \in Range(lastOp.up) :
                  q.op = "CREATE INDEX" => q.columnNames = lastOp.columnNames
        /\ Len(lastOp.tableAfter.indices) = Len(lastOp.cacheBefore.indices) =>
              \A i \in 1..Len(lastOp.cacheBefore.indices) :
                  KeepsColumnOrder(lastOp.cacheBefore.indices[i].columnNames,
                                   lastOp.tableAfter.indices[i].columnNames)

\* ---- C33 ----------------------------------------------------------------
\* C33: between the calls of startTransaction, commitTransaction and
\* rollbackTransaction, isTransactionActive is true exactly when
\* transactionDepth is above 0, and transactionDepth is never negative,
\* whatever calls failed before.
C33_ActiveIffDepthPositive ==
    /\ isTransactionActive <=> (transactionDepth > 0)
    /\ transactionDepth >= 0

\* ---- C34 ----------------------------------------------------------------
\* The pool's release function of connection c has been called.
HandedBack(c) == \E k \in 1..Len(poolReleases) : poolReleases[k].conn = c

\* C34: whenever query() hands a statement to the driver connection, the
\* pool's release function of that connection has not been called, however
\* query() is interleaved with release() and the connection's error event.
C34_NoStatementAfterHandBack ==
    [][\A i \in 1..Len(queryCalls) :
          (/\ Len(queryCalls') >= i
           /\ Len(queryCalls'[i].sent) > Len(queryCalls[i].sent))
          => ~HandedBack(queryCalls'[i].sent[Len(queryCalls'[i].sent)].conn)]_vars

\* ---- C35 ----------------------------------------------------------------
\* The constraints or indices of one type that the catalog holds for a
\* table, by name and column list.
OwnObjects(table, type) ==
    {[name |-> o.constraint_name, columnNames |-> o.columnNames] :
        o \in {x \in Range(catalog.objects) :
                  /\ x.table_schema = table.schema
                  /\ x.table_name = table.name
                  /\ x.constraint_type = type}}

\* C35: each Table returned by loadTables carries exactly the unique,
\* check, foreign-key and index definitions (names and column lists) of
\* its own (schema, table) in the catalog, and a column is marked unique
\* exactly when a single-column unique constraint of its table covers it,
\* also when another table of the batch has a constraint of the same name.
C35_OwnConstraintsOnly ==
    catalog.loaded =>
        \A i \in 1..Len(catalog.tables) :
            LET table == catalog.tables[i] IN
            /\ Range(table.uniques) = OwnObjects(table, "UNIQUE")
            /\ Range(table.checks) = OwnObjects(table, "CHECK")
            /\ Range(table.foreignKeys) = OwnObjects(table, "FOREIGN KEY")
            /\ Range(table.indices) = OwnObjects(table, "INDEX")
            /\ \A k \in 1..Len(table.columns) :
                  table.columns[k].isUnique <=>
                     \E u \in OwnObjects(table, "UNIQUE") :
                        u.columnNames = <<table.columns[k].name>>

\* No two tables of the batch have a constraint or index of the same name.
DistinctNames ==
    \A x, y \in Range(catalog.objects) :
        x.constraint_name = y.constraint_name => x = y

\* ---- C36 ----------------------------------------------------------------
\* C36: the down statement of createPrimaryKey and of dropPrimaryKey names
\* the same primary-key constraint as the up statement; without a
\* user-supplied name (the constraintName argument or the primary
\* column's primaryKeyConstraintName) it is the naming strategy's name of
\* the primary column names.
C36_PrimaryKeyNameBothWays ==
    (/\ lastOp.op \in {"createPrimaryKey", "dropPrimaryKey"}
     /\ lastOp.error = "")
    => /\ Len(lastOp.up) = 1
       /\ Len(lastOp.down) = 1
       /\ lastOp.up[1].name = lastOp.down[1].name
       /\ \E add \in {IF lastOp.op = "createPrimaryKey" THEN lastOp.up[1]
                      ELSE lastOp.down[1]} :
             (/\ lastOp.newName = ""
              /\ \A c \in Range(lastOp.cacheBefore.columns) :
                    c.primaryKeyConstraintName = "")
             => add.name = primaryKeyName(lastOp.target, add.columnNames)

\* ---- C37 ----------------------------------------------------------------
\* C37: after a successful updatePrimaryKeys(table, columns) the primary
\* columns of the cached table are exactly the given columns.
C37_PrimaryColumnsAsGiven ==
    (lastOp.op = "updatePrimaryKeys" /\ lastOp.ok) =>
        {c.name : c \in Range(primaryColumns(cache))} = Range(lastOp.columnNames)

\* ---- C38 ----------------------------------------------------------------
\* The column lists of the uniques, indices, checks and foreign keys of a
\* table.
ConstraintColumnLists(table) ==
    {m.columnNames : m \in Range(table.uniques) \cup Range(table.indices)
                           \cup Range(table.checks) \cup Range(table.foreignKeys)}

\* The number of column lists of the table's constraints that hold the name.
ListsWith(table, name) ==
    Cardinality({k \in {<<kind, i>> :
                          kind \in {"uniques", "indices", "checks", "foreignKeys"},
                          i \in 1..4} :
                    /\ k[2] <= Len(table[k[1]])
                    /\ Includes(table[k[1]][k[2]].columnNames, name)})

\* C38: after a successful renameColumn or dropColumn every unique, index,
\* check and foreign key of the cached table lists only columns the cached
\* table has; a renamed column stands under its new name in every
\* constraint that held it, a dropped column in none.
C38_ConstraintsNameExistingColumns ==
    (lastOp.op \in {"renameColumn", "dropColumn"} /\ lastOp.ok) =>
        /\ \A names \in ConstraintColumnLists(cache) :
              \A i \in 1..Len(names) : names[i] \in NamesOf(cache.columns)
        /\ lastOp.op = "renameColumn" =>
              ListsWith(cache, lastOp.newColumn.name)
                 = ListsWith(lastOp.cacheBefore, lastOp.oldColumn.name)
        /\ lastOp.op = "dropColumn" =>
              ListsWith(cache, lastOp.oldColumn.name) = 0

\* ---- C39 ----------------------------------------------------------------
\* C39: the up list of one changeColumn call never holds the same
\* statement twice.
C39_NoStatementTwice ==
    lastOp.op = "changeColumn" =>
        \A i, j \in 1..Len(lastOp.up) : lastOp.up[i] = lastOp.up[j] => i = j

\* ---- C40 ----------------------------------------------------------------
\* C40: for a table with metadata parametrizeMap returns an object map in
\* which every key of the input that has a column stands with its value
\* wrapped as an MssqlParameter, also when another key of the input has no
\* column.
C40_EveryColumnKeyWrapped ==
    (parametrize.called /\ parametrize.hasMetadata) =>
        /\ parametrize.result.error = ""
        /\ parametrize.result.holds = NewMap
        /\ \A i \in 1..Len(parametrize.map) :
              \A column \in findColumnWithDatabaseName(parametrize.map[i].key) :
                 \E k \in 1..Len(parametrize.result.entries) :
                    parametrize.result.entries[k] =
                       [key |-> parametrize.map[i].key,
                        value |-> parametrizeValue(column, parametrize.map[i].value)]

\* Every key of the map has a column.
EveryKeyHasColumn ==
    \A i \in 1..Len(parametrize.map) :
        findColumnWithDatabaseName(parametrize.map[i].key) # {}

====
